---- MODULE Spec2Model ----
(***************************************************************************)
(* Debug-session orchestration and stop detection of the VS Code MCP       *)
(* extension: the handshake bootstrap (bootstrap.js), the bootstrap-based  *)
(* debugJestTest with waitForBreakpoint, the event-strategy and the        *)
(* polling-strategy waitForNextStop, executeCommandInPty with the ready    *)
(* wait of launchJestProcess and killProcessTree, and formatTerminalChunk. *)
(***************************************************************************)
EXTENDS Integers, Sequences, FiniteSets, TLC

(***************************************************************************)
(* Bounds of the model.                                                    *)
(***************************************************************************)
MaxSends == 3
MaxStops == 2
MaxLine == 2
MaxThreads == 2
MaxPoll == 2
MaxTimeout == 3
MaxLat == 1
MaxChunks == 2
MaxChunkLen == 2
MaxDesc == 2
MaxCtrlC == 1
MaxText == 3
MaxDepth == 3
MaxChecks == 2
MaxBps == 2

VARIABLES
    \* ---- bootstrap.js (the spawned node process) ----
    bootProc,      \* "none" | "spawnError" | "running" | "exited1": the spawned process
    hasRun,        \* let hasRun
    jestStarts,    \* number of times require(jestCliPath) was executed
    bootTimer,     \* "off" | "armed" | "fired": the 30 s fallback setTimeout
    ipc,           \* IPC messages sent to the process, not yet delivered
    startRecv,     \* number of 'runJestTests' messages delivered to the handler
    envSends,      \* number of messages the parent has put on the channel
    \* ---- debugJestTest (bootstrap flow) ----
    pc,            \* position of the async function
    req,           \* the call's inputs
    launchEnv,     \* what getWorkspaceFolder and findNearestJestBin answered: [ws, located]
    spawned,       \* number of spawn('node', ...) calls
    readyResolved, \* attachPromise has been resolved
    attachCalls,   \* number of vscode.debug.startDebugging calls
    attachStarted, \* "none" | "pending" | "true" | "false" | "threw"
    startSent,     \* number of nodeProcess.send({command:'runJestTests'}) calls
    result,        \* "none" or the returned {content, isError}
    \* ---- waitForBreakpoint ----
    bpWait,        \* the promise: "none" | "pending" | "resolved" | "rejNotFound" | "rejTimeout"
    target,        \* targetBreakpoint.location: [found, path, line (0-based)]
    bpTimer,       \* const timeout: "off" | "armed" | "fired" | "cleared"
    bpFactory,     \* let factory: "none" | "registered" | "disposed"
    bpTracker,     \* a tracker with onDidSendMessage exists for session.id
    bpReqs,        \* 'stackTrace' requests awaiting their response
    bpStops,       \* the 'stopped' events delivered to the tracker, in order
    bpFrames,      \* the stops whose 'stackTrace' response carried their top frame
    bpRuns,        \* how often the resolution path (clearTimeout, dispose, resolve) ran
    bpLateRuns,    \* how often it ran after the timeout callback had run
    sessTerminated,\* the debug session has ended
    bpTermPending, \* the session ended while the wait was pending
    \* ---- waitForNextStop, event strategy (debug_jest_test.ts) ----
    evWait,        \* the promise: "none" | "pending" | "resolved" | "rejError" | "rejTerminated"
    skipEntry,     \* opts.skipEntry (default true)
    done,          \* let done
    evDisposed,    \* the tracker factory in disposables has been disposed
    evTrackers,    \* the sessions a tracker was created for
    evReqs,        \* 'stackTrace' requests awaiting their response
    evContinues,   \* the 'continue' requests issued: <<[session, threadId], ...>>
    evStops,       \* the 'stopped' events delivered to a tracker, in order
    evFrames,      \* the stops whose 'stackTrace' request succeeded
    evSettles,     \* how often a settle path (done, cleanup, resolve/reject) ran
    evSummary,     \* the summary the promise resolved with
    evEnded,       \* the sessions that have ended
    \* ---- waitForNextStop, polling strategy (breakpoint_utility.ts) ----
    pollWait,      \* "none" | "threw" | "pending" | "resolved" | "rejTimeout"
    poll,          \* const poll = opts?.pollIntervalMs ?? 1000
    to,            \* const to = opts?.timeoutMs ?? 300_000
    now,           \* Date.now() - started
    pollPc,        \* "idle" | "threads" | "stack" | "timer" | "done": where tick is
    pollLog,       \* one entry per tick that has ended: [at, out]
    tickAt,        \* Date.now() - started when the tick in progress began
    \* ---- executeCommandInPty, called by launchJestProcess ----
    child,         \* let child: "none" | "running" | "spawnFailed" | "failed" | "closed"
    output,        \* let output
    hadError,      \* let hadError
    ptyResult,     \* "pending" | "closing" | "ok" | "error": the promise returned
    chunks,        \* number of 'data' events delivered
    interceptCalls,\* number of options.onIntercept() calls
    chunkMatched,  \* some single chunk matched interceptPattern
    readyWait,     \* launchJestProcess: "none" | "pending" | "resolved" | "rejTimeout"
    readyTimer,    \* its 30 s setTimeout: "off" | "armed" | "cleared" | "fired"
    readyLateRuns, \* onIntercept runs (clearTimeout, resolve) after the timeout fired
    platform,      \* process.platform: "win32" | "posix"
    procAlive,     \* the spawned process is alive
    descs,         \* number of live processes the spawned process has started
    killCalls,     \* number of killProcessTree(child) calls
    resolves,      \* number of resolve({content, isError}) calls of executeCommandInPty
    closeCode,     \* the code the 'close' event carried, "none" before it
    timeoutAlive,  \* the spawned process was alive when the ready wait timed out
    \* ---- formatTerminalChunk applied to one text ----
    fmtPc,         \* "idle" | "input" | "once" | "twice"
    fmtIn,         \* the chunk
    fmtOut1,       \* formatTerminalChunk(chunk)
    fmtOut2,       \* formatTerminalChunk(formatTerminalChunk(chunk))
    \* ---- findNearestJestBin: a directory is its depth below the root ----
    findPc,        \* "idle" | "loop" | "done"
    startDir,      \* the argument startDir
    markers,       \* the directories that hold node_modules/jest/bin/jest.js
    dir,           \* let dir
    probes,        \* the directories handed to fs.existsSync, in order
    findResult,    \* what the function returned: [found, root]
    \* ---- debugJestTest, listener flow (inspect-brk, vscode.debug events) ----
    hPc,           \* "idle" | "attaching" | "awaitEvents" | "returned"
    hBp,           \* a breakpointId was passed
    hSubs,         \* the event listeners that are registered
    hTimer,        \* timeoutHandle: "off" | "armed" | "cleared" | "fired"
    hChecks,       \* number of 500 ms timers set by the active-session listener
    hPromise,      \* what debugSessionPromise resolved with
    hResult,       \* what debugJestTest returned
    hSession,      \* the debug session: "none" | "started" | "ended"
    hActive,       \* vscode.debug.activeDebugSession is defined
    hStopSeen,     \* the session has stopped at the target breakpoint
    \* ---- the pause summaries of the two waitForNextStop ----
    sStop,         \* the stop: the 'stopped' event body and the top stack frame
    sEvent,        \* the summary the tracker of the event strategy resolves with
    sPoll,         \* the summary the tick of the polling strategy resolves with
    \* ---- debugContinue (breakpoint_utility.ts) ----
    cPc,           \* "idle" | "threw" | "awaitCommand" | "awaitWait" | "returned"
    dbg,           \* the debuggee: "none" | "pausedOld" | "running" | "pausedNew"
    cFrom,         \* the pause whose frame resolved the wait, "none" before
    \* ---- attachAndAwaitStop (debug_jest_test.ts) ----
    aasPc,         \* "idle" | "attaching" | "waiting" | "threw" | "returned"
    aasStarted,    \* the debug sessions that have started
    evMissed,      \* 'stopped' events of sessions that have no tracker
    \* ---- runCmdInTerminal (ptyHelper.ts) ----
    rProc,         \* const proc: "none" | "running" | "killed" | "exited"
    rUntil,        \* wait.until is given
    rTimer,        \* const timer: "off" | "armed" | "cleared" | "fired"
    rPromise,      \* "none" | "pending" | "resolved" | "rejTimeout"
    rFinishes,     \* how often finish (cleanup, resolve) ran
    rOutput,       \* let output: the chunks received, "m" completes a match
    rAtTimeout,    \* proc when the timer fired, "n/a" before
    rExit,         \* the exit field the promise resolved with, "none" before
    \* ---- executeCommandInPty: spawn, the pipes and the 'data' listeners ----
    iChild,        \* let child: "none" | "running"
    iListening,    \* the streams of child that have a 'data' listener
    iFlowing,      \* the streams of child that are read and emit 'data'
    iPipe,         \* per stream, the chunks the process wrote that are not read yet
    iEmitted,      \* number of chunks the process wrote
    iMatchEmitted, \* how many of them match interceptPattern
    iTested,       \* number of chunks a 'data' listener tested
    iLost,         \* number of chunks emitted as 'data' with no listener
    iIntercepts,   \* number of options.onIntercept() calls
    \* ---- executeCommandInPty: the output accumulated over two chunks ----
    kTokens,       \* the text the process wrote, as tokens
    kCut,          \* the number of tokens in the first 'data' event
    kPc,           \* "idle" | "first" | "second" | "done"
    kOutput,       \* let output
    \* ---- unsetBreakpoint (breakpoint_utility.ts) ----
    uPc,           \* "idle" | "called" | "done"
    uArgs,         \* [fileName, lineNumber, columnNumber]
    uBreakpoints,  \* vscode.debug.breakpoints
    uBefore,       \* vscode.debug.breakpoints at the call
    uRemoveCalls   \* number of vscode.debug.removeBreakpoints calls

bootVars == <<bootProc, hasRun, jestStarts, bootTimer, ipc, startRecv, envSends>>
orchVars == <<pc, req, launchEnv, spawned, readyResolved, attachCalls, attachStarted,
              startSent, result>>
bpVars   == <<bpWait, target, bpTimer, bpFactory, bpTracker, bpReqs, bpStops,
              bpFrames, bpRuns, bpLateRuns, sessTerminated, bpTermPending>>
evVars   == <<evWait, skipEntry, done, evDisposed, evTrackers, evReqs, evContinues,
              evStops, evFrames, evSettles, evSummary, evEnded>>
pollVars == <<pollWait, poll, to, now, pollPc, pollLog, tickAt>>
ptyVars  == <<child, output, hadError, ptyResult, chunks, interceptCalls,
              chunkMatched, readyWait, readyTimer, readyLateRuns,
              platform, procAlive, descs, killCalls, resolves, closeCode,
              timeoutAlive>>
fmtVars  == <<fmtPc, fmtIn, fmtOut1, fmtOut2>>
findVars == <<findPc, startDir, markers, dir, probes, findResult>>
heurVars == <<hPc, hBp, hSubs, hTimer, hChecks, hPromise, hResult, hSession, hActive,
              hStopSeen>>
\* The components that the debug flows above do not touch.
sumVars  == <<sStop, sEvent, sPoll>>
contVars == <<cPc, dbg, cFrom>>
aasVars  == <<aasPc, aasStarted, evMissed>>
runVars  == <<rProc, rUntil, rTimer, rPromise, rFinishes, rOutput, rAtTimeout,
              rExit>>
icVars   == <<iChild, iListening, iFlowing, iPipe, iEmitted, iMatchEmitted, iTested, iLost,
              iIntercepts>>
splitVars == <<kTokens, kCut, kPc, kOutput>>
unsetVars == <<uPc, uArgs, uBreakpoints, uBefore, uRemoveCalls>>
lateVars == <<runVars, icVars, splitVars, unsetVars>>
auxVars  == <<findVars, heurVars, sumVars, contVars, aasVars, lateVars>>

(***************************************************************************)
(* bootstrap.js                                                            *)
(***************************************************************************)
\* An IPC message: a falsy value (null) or an object with a command.
StartMsg == [truthy |-> TRUE, command |-> "runJestTests"]
OtherMsg == [truthy |-> TRUE, command |-> "other"]
NullMsg  == [truthy |-> FALSE, command |-> "none"]
Messages == {StartMsg, OtherMsg, NullMsg}

\* message && message.command === 'runJestTests'
IsRunCommand(m) == m.truthy /\ m.command = "runJestTests"

\* runJest without the hasRun guard: every call requires the Jest CLI again.
RunJestUnguarded(hr, starts) == [hasRun |-> TRUE, jestStarts |-> starts + 1]

\* function runJest(): the values of hasRun and of the number of Jest starts
\* after the call.
RunJest(hr, starts) ==
    IF hr THEN [hasRun |-> hr, jestStarts |-> starts]
          ELSE [hasRun |-> TRUE, jestStarts |-> starts + 1]

\* process.on('message', ...): one message is delivered to the handler.
BootMessage ==
    /\ bootProc = "running"
    /\ ipc # <<>>
    /\ LET m == Head(ipc)
           r == RunJest(hasRun, jestStarts)
       IN  /\ ipc' = Tail(ipc)
           /\ IF IsRunCommand(m)
                 THEN /\ hasRun' = r.hasRun
                      /\ jestStarts' = r.jestStarts
                      /\ startRecv' = startRecv + 1
                 ELSE UNCHANGED <<hasRun, jestStarts, startRecv>>
    /\ UNCHANGED <<bootProc, bootTimer, envSends>>

\* A fallback timer that ends the process whatever hasRun is.
BootFallbackTimerAlwaysExits ==
    /\ bootProc = "running"
    /\ bootTimer = "armed"
    /\ bootTimer' = "fired"
    /\ bootProc' = "exited1"
    /\ ipc' = <<>>
    /\ UNCHANGED <<hasRun, jestStarts, startRecv, envSends>>

\* A fallback timer that fires without ending the process.
BootFallbackTimerNoExit ==
    /\ bootProc = "running"
    /\ bootTimer = "armed"
    /\ bootTimer' = "fired"
    /\ UNCHANGED <<bootProc, ipc, hasRun, jestStarts, startRecv, envSends>>

\* The fallback setTimeout(..., 30000) fires.
BootFallbackTimer ==
    /\ bootProc = "running"
    /\ bootTimer = "armed"
    /\ bootTimer' = "fired"
    /\ IF ~hasRun
          THEN /\ bootProc' = "exited1"      \* process.exit(1)
               /\ ipc' = <<>>                \* the channel closes with the process
          ELSE UNCHANGED <<bootProc, ipc>>
    /\ UNCHANGED <<hasRun, jestStarts, startRecv, envSends>>

\* The parent process sends any message over the IPC channel.
EnvSend(m) ==
    /\ bootProc = "running"
    /\ envSends < MaxSends
    /\ ipc' = Append(ipc, m)
    /\ envSends' = envSends + 1
    /\ UNCHANGED <<bootProc, hasRun, jestStarts, bootTimer, startRecv>>

BootIdle ==
    /\ bootProc = "none"
    /\ hasRun = FALSE
    /\ jestStarts = 0
    /\ bootTimer = "off"
    /\ ipc = <<>>
    /\ startRecv = 0
    /\ envSends = 0

\* The state of the process right after node has run bootstrap.js top to bottom.
BootStarted ==
    /\ bootProc = "running"
    /\ hasRun = FALSE
    /\ jestStarts = 0
    /\ bootTimer = "armed"
    /\ ipc = <<>>
    /\ startRecv = 0
    /\ envSends = 0

(***************************************************************************)
(* waitForBreakpoint (bootstrap-flow debug_jest_test)                      *)
(***************************************************************************)
Paths == {"a.test.js", "b.js"}
Reasons == {"breakpoint", "step"}
\* A 'stopped' event with the top frame of the stopped thread (DAP: 1-based line).
Stops == [reason : Reasons, path : Paths, line : 1..MaxLine]
\* vscode.debug.breakpoints.find(bp => bp.id === breakpointId): a source
\* breakpoint (0-based line) or nothing usable.
Targets == [found : {TRUE}, path : {"a.test.js"}, line : 0..(MaxLine - 1)]
              \cup {[found |-> FALSE, path |-> "a.test.js", line |-> 0]}
NoTarget == [found |-> FALSE, path |-> "a.test.js", line |-> 0]

\* The comparison without the conversion of the 1-based DAP line.
AtTargetSameBase(s, t) == s.path = t.path /\ s.line = t.line

\* stoppedUri.fsPath === targetLocation.uri.fsPath &&
\* stoppedLine === targetLocation.range.start.line, stoppedLine = topFrame.line - 1
AtTarget(s, t) == s.path = t.path /\ s.line - 1 = t.line

BpIdle ==
    /\ bpWait = "none"
    /\ target = NoTarget
    /\ bpTimer = "off"
    /\ bpFactory = "none"
    /\ bpTracker = FALSE
    /\ bpReqs = {}
    /\ bpStops = <<>>
    /\ bpFrames = {}
    /\ bpRuns = 0
    /\ bpLateRuns = 0
    /\ sessTerminated = FALSE
    /\ bpTermPending = FALSE

\* The executor of the promise of waitForBreakpoint, for the breakpoint t found.
BpCreate(t) ==
    /\ target' = t
    /\ IF ~t.found
          THEN /\ bpWait' = "rejNotFound"
               /\ UNCHANGED <<bpTimer, bpFactory>>
          ELSE /\ bpWait' = "pending"
               /\ bpTimer' = "armed"
               /\ bpFactory' = "registered"
    /\ UNCHANGED <<bpTracker, bpReqs, bpStops, bpFrames, bpRuns, bpLateRuns,
                   sessTerminated, bpTermPending>>

\* createDebugAdapterTracker(currentSession): VS Code asks the registered
\* factory for a tracker; only the tracker of session.id gets the handler.
BpCreateTracker(sameSession) ==
    /\ bpFactory = "registered"
    /\ ~sessTerminated
    /\ bpTracker' = (bpTracker \/ sameSession)
    /\ UNCHANGED <<bpWait, target, bpTimer, bpFactory, bpReqs, bpStops, bpFrames,
                   bpRuns, bpLateRuns, sessTerminated, bpTermPending>>

\* onDidSendMessage for a 'stopped' event s: only reason 'breakpoint' asks
\* for the stack trace.
BpStopped(s) ==
    /\ bpTracker
    /\ ~sessTerminated
    /\ Len(bpStops) < MaxStops
    /\ bpStops' = Append(bpStops, [stop |-> s, pending |-> (bpWait = "pending")])
    /\ bpReqs' = IF s.reason = "breakpoint" THEN bpReqs \cup {s} ELSE bpReqs
    /\ UNCHANGED <<bpWait, target, bpTimer, bpFactory, bpTracker, bpFrames,
                   bpRuns, bpLateRuns, sessTerminated, bpTermPending>>

\* The continuation of onDidSendMessage after the await of 'stackTrace':
\* rsp is "frame" (the frame of the stop), "noframes" or "fail" (the request threw).
BpStackTrace(s, rsp) ==
    /\ s \in bpReqs
    /\ rsp = "frame" => ~sessTerminated
    /\ bpReqs' = bpReqs \ {s}
    /\ bpFrames' = IF rsp = "frame"
                      THEN bpFrames \cup {[stop |-> s, pending |-> (bpWait = "pending")]}
                      ELSE bpFrames
    /\ IF rsp = "frame" /\ AtTarget(s, target)
          THEN /\ bpTimer' = IF bpTimer = "armed" THEN "cleared" ELSE bpTimer
               /\ bpFactory' = "disposed"
               /\ bpWait' = IF bpWait = "pending" THEN "resolved" ELSE bpWait
               /\ bpRuns' = bpRuns + 1
               /\ bpLateRuns' = IF bpTimer = "fired" THEN bpLateRuns + 1 ELSE bpLateRuns
          ELSE UNCHANGED <<bpTimer, bpFactory, bpWait, bpRuns, bpLateRuns>>
    /\ UNCHANGED <<target, bpTracker, bpStops, sessTerminated, bpTermPending>>

\* The setTimeout(..., timeoutMs) callback: dispose the factory, reject.
BpTimeout ==
    /\ bpTimer = "armed"
    /\ bpTimer' = "fired"
    /\ bpFactory' = "disposed"
    /\ bpWait' = IF bpWait = "pending" THEN "rejTimeout" ELSE bpWait
    /\ UNCHANGED <<target, bpTracker, bpReqs, bpStops, bpFrames, bpRuns,
                   bpLateRuns, sessTerminated, bpTermPending>>

\* The debug session ends; waitForBreakpoint registers nothing for it.
SessTerminate ==
    /\ bpWait # "none"
    /\ ~sessTerminated
    /\ sessTerminated' = TRUE
    /\ bpTermPending' = (bpWait = "pending")
    /\ UNCHANGED <<bpWait, target, bpTimer, bpFactory, bpTracker, bpReqs,
                   bpStops, bpFrames, bpRuns, bpLateRuns>>

(***************************************************************************)
(* debugJestTest, bootstrap flow: node --inspect bootstrap.js, attach,     *)
(* send {command:'runJestTests'}, waitForBreakpoint                        *)
(***************************************************************************)
Requests == [testFilePath : {"", "t.test.js"}, breakpointId : {"", "bp1"}]

Return(text, isError) == [text |-> text, isError |-> isError]
NoResult == Return("none", FALSE)

OrchIdle ==
    /\ pc = "idle"
    /\ req \in Requests
    /\ launchEnv = [ws |-> TRUE, located |-> TRUE]
    /\ spawned = 0
    /\ readyResolved = FALSE
    /\ attachCalls = 0
    /\ attachStarted = "none"
    /\ startSent = 0
    /\ result = NoResult

\* A validation that goes on without a Jest binary.
ValidateNoJestCheck(file, ws, located) ==
    IF file = "" THEN "Error: Test file path is required."
    ELSE IF ~ws THEN "Error: Could not find workspace folder"
    ELSE "ok"

\* Stage 1: the text of the failure that validation returns, or "ok".
Validate(file, ws, located) ==
    IF file = "" THEN "Error: Test file path is required."
    ELSE IF ~ws THEN "Error: Could not find workspace folder"
    ELSE IF ~located THEN "Could not find Jest"
    ELSE "ok"

\* Stage 1 to 3 up to 'await attachPromise': validation, then spawn of
\* node --inspect bootstrap.js with an IPC channel.  ws: getWorkspaceFolder
\* found a folder; located: findNearestJestBin found Jest; spawnOk: node could
\* be started (otherwise the process only emits 'error', which is logged).
Launch(ws, located, spawnOk) ==
    /\ pc = "idle"
    /\ launchEnv' = [ws |-> ws, located |-> located]
    /\ LET v == Validate(req.testFilePath, ws, located)
       IN  IF v # "ok"
              THEN /\ result' = Return(v, TRUE)
                   /\ pc' = "returned"
                   /\ UNCHANGED <<spawned, bootVars>>
              ELSE /\ spawned' = spawned + 1
                   /\ bootProc' = IF spawnOk THEN "running" ELSE "spawnError"
                   /\ bootTimer' = IF spawnOk THEN "armed" ELSE "off"
                   /\ pc' = "awaitReady"
                   /\ UNCHANGED <<result, hasRun, jestStarts, ipc, startRecv, envSends>>
    /\ UNCHANGED <<req, readyResolved, attachCalls, attachStarted, startSent, bpVars>>

\* nodeProcess.stdout / stderr .on('data'): a chunk of the process's output;
\* hasReady: /Debugger listening on ws:\/\// matches this chunk.
ProcessData(hasReady) ==
    /\ bootProc \in {"running", "exited1"}
    /\ readyResolved' = (readyResolved \/ hasReady)
    /\ UNCHANGED <<pc, req, launchEnv, spawned, attachCalls, attachStarted, startSent, result,
                   bootVars, bpVars>>

\* An attach that does not wait for the ready line.
StartDebuggingEarly ==
    /\ pc = "awaitReady"
    /\ attachCalls' = attachCalls + 1
    /\ attachStarted' = "pending"
    /\ pc' = "attaching"
    /\ UNCHANGED <<req, launchEnv, spawned, readyResolved, startSent, result, bootVars, bpVars>>

\* After 'await attachPromise': vscode.debug.startDebugging is called.
StartDebugging ==
    /\ pc = "awaitReady"
    /\ readyResolved
    /\ attachCalls' = attachCalls + 1
    /\ attachStarted' = "pending"
    /\ pc' = "attaching"
    /\ UNCHANGED <<req, launchEnv, spawned, readyResolved, startSent, result, bootVars, bpVars>>

\* A flow that goes on to the handshake whatever startDebugging returned.
AttachReturnsUnchecked(r) ==
    /\ pc = "attaching"
    /\ attachStarted' = r
    /\ IF r \in {"true", "false"}
          THEN /\ pc' = "delay"
               /\ UNCHANGED result
          ELSE /\ result' = Return("Failed to debug Jest test", TRUE)
               /\ pc' = "returned"
    /\ UNCHANGED <<req, launchEnv, spawned, readyResolved, attachCalls, startSent, bootVars, bpVars>>

\* 'await vscode.debug.startDebugging' returns r ("true" | "false") or throws.
AttachReturns(r) ==
    /\ pc = "attaching"
    /\ attachStarted' = r
    /\ IF r = "true"
          THEN /\ pc' = "delay"
               /\ UNCHANGED result
          ELSE \* throw new Error('Could not attach Jest debug session.'), caught
               /\ result' = Return("Failed to debug Jest test", TRUE)
               /\ pc' = "returned"
    /\ UNCHANGED <<req, launchEnv, spawned, readyResolved, attachCalls, startSent, bootVars, bpVars>>

\* A handshake that sends the start message twice.
SendStartTwice(q) == Append(Append(q, StartMsg), StartMsg)

\* nodeProcess.send({ command: 'runJestTests' }): the channel after the call.
SendStart(q) == Append(q, StartMsg)

\* A test of the channel that always passes.
ConnectedAlways(proc) == TRUE

\* nodeProcess && nodeProcess.connected: the IPC channel is open while the
\* spawned process lives.
Connected(proc) == proc = "running"

\* After the 1 s delay: the handshake message, the active session, and the
\* start of the breakpoint wait.  session: vscode.debug.activeDebugSession is
\* defined; t: the breakpoint the id resolves to.
Signal(session, t) ==
    /\ pc = "delay"
    /\ IF Connected(bootProc)
          THEN /\ ipc' = SendStart(ipc)
               /\ startSent' = startSent + 1
               /\ UNCHANGED <<bootProc, hasRun, jestStarts, bootTimer, startRecv, envSends>>
               /\ IF ~session
                     THEN /\ result' = Return("Failed to debug Jest test", TRUE)
                          /\ pc' = "returned"
                          /\ UNCHANGED bpVars
                     ELSE IF req.breakpointId # ""
                     THEN /\ pc' = "awaitStop"
                          /\ BpCreate(t)
                          /\ UNCHANGED result
                     ELSE /\ result' = Return("Debugger attached. Running tests...", FALSE)
                          /\ pc' = "returned"
                          /\ UNCHANGED bpVars
          ELSE /\ result' = Return("Failed to debug Jest test", TRUE)
               /\ pc' = "returned"
               /\ UNCHANGED <<startSent, bootVars, bpVars>>
    /\ UNCHANGED <<req, launchEnv, spawned, readyResolved, attachCalls, attachStarted>>

\* 'await waitForBreakpoint(session, breakpointId)' settles.
StopWaitSettled ==
    /\ pc = "awaitStop"
    /\ bpWait \notin {"none", "pending"}
    /\ result' = IF bpWait = "resolved"
                    THEN Return("Tests started and execution paused at breakpoint", FALSE)
                    ELSE Return("Failed to hit target breakpoint", TRUE)
    /\ pc' = "returned"
    /\ UNCHANGED <<req, launchEnv, spawned, readyResolved, attachCalls, attachStarted, startSent,
                   bootVars, bpVars>>

(***************************************************************************)
(* waitForNextStop, event strategy (debug_jest_test.ts)                    *)
(***************************************************************************)
Sessions == {"parent", "child"}
Threads == 1..MaxThreads
\* The body of a 'stopped' event.
EvStopBodies == [reason : {"entry", "breakpoint"}, threadId : Threads]
NoSummary == [reason |-> "none", src |-> "none"]

EvIdle ==
    /\ evWait = "none"
    /\ skipEntry = TRUE
    /\ done = FALSE
    /\ evDisposed = FALSE
    /\ evTrackers = {}
    /\ evReqs = {}
    /\ evContinues = <<>>
    /\ evStops = <<>>
    /\ evFrames = {}
    /\ evSettles = 0
    /\ evSummary = NoSummary
    /\ evEnded = {}

\* The state when waitForNextStop(opts) has returned its promise: the factory
\* is registered for '*', nothing else has happened.
EvCreated ==
    /\ evWait = "pending"
    /\ skipEntry \in BOOLEAN
    /\ done = FALSE
    /\ evDisposed = FALSE
    /\ evTrackers = {}
    /\ evReqs = {}
    /\ evContinues = <<>>
    /\ evStops = <<>>
    /\ evFrames = {}
    /\ evSettles = 0
    /\ evSummary = NoSummary
    /\ evEnded = {}

\* createDebugAdapterTracker(session): a session starts while the factory is
\* registered.
EvCreateTracker(sess) ==
    /\ evWait # "none"
    /\ ~evDisposed
    /\ sess \notin evEnded
    /\ sess \notin evTrackers
    /\ evTrackers' = evTrackers \cup {sess}
    /\ UNCHANGED <<evWait, skipEntry, done, evDisposed, evReqs, evContinues, evStops,
                   evFrames, evSettles, evSummary, evEnded>>

\* An onDidSendMessage that sends every stop, 'entry' too, to the stack trace.
EvStoppedNoSkip(sess, b) ==
    /\ sess \in evTrackers
    /\ sess \notin evEnded
    /\ Len(evStops) < MaxStops
    /\ evStops' = Append(evStops, [session |-> sess, body |-> b, done |-> done])
    /\ evReqs' = IF done THEN evReqs ELSE evReqs \cup {[session |-> sess, body |-> b]}
    /\ UNCHANGED <<evWait, skipEntry, done, evDisposed, evTrackers, evContinues,
                   evFrames, evSettles, evSummary, evEnded>>

\* onDidSendMessage(msg) with msg.event === 'stopped', up to the first await.
EvStopped(sess, b) ==
    /\ sess \in evTrackers
    /\ sess \notin evEnded
    /\ Len(evStops) < MaxStops
    /\ evStops' = Append(evStops, [session |-> sess, body |-> b, done |-> done])
    /\ IF done
          THEN UNCHANGED <<evContinues, evReqs>>
          ELSE IF b.reason = "entry" /\ skipEntry
          THEN /\ evContinues' = Append(evContinues,
                                        [session |-> sess, threadId |-> b.threadId])
               /\ UNCHANGED evReqs
          ELSE /\ evReqs' = evReqs \cup {[session |-> sess, body |-> b]}
               /\ UNCHANGED evContinues
    /\ UNCHANGED <<evWait, skipEntry, done, evDisposed, evTrackers, evFrames,
                   evSettles, evSummary, evEnded>>

\* A continuation that ignores a failed 'stackTrace' request.
EvStackTraceSwallows(r, rsp) ==
    /\ r \in evReqs
    /\ rsp = "frame" => r.session \notin evEnded
    /\ evReqs' = evReqs \ {r}
    /\ IF rsp = "fail"
          THEN UNCHANGED <<done, evDisposed, evSettles, evWait, evSummary, evFrames>>
          ELSE /\ done' = TRUE
               /\ evDisposed' = TRUE
               /\ evSettles' = evSettles + 1
               /\ evWait' = IF evWait = "pending" THEN "resolved" ELSE evWait
               /\ evSummary' = IF evWait = "pending"
                                  THEN [reason |-> r.body.reason,
                                        src |-> IF rsp = "frame" THEN "a.test.js"
                                                                 ELSE "<unknown>"]
                                  ELSE evSummary
               /\ evFrames' = evFrames \cup {[session |-> r.session, body |-> r.body,
                                              pending |-> (evWait = "pending")]}
    /\ UNCHANGED <<skipEntry, evTrackers, evContinues, evStops, evEnded>>

\* onDidSendMessage after 'await session.customRequest("stackTrace")':
\* rsp is "frame", "noframes" (stackFrames empty or absent) or "fail".
EvStackTrace(r, rsp) ==
    /\ r \in evReqs
    /\ rsp = "frame" => r.session \notin evEnded
    /\ evReqs' = evReqs \ {r}
    /\ done' = TRUE
    /\ evDisposed' = TRUE
    /\ evSettles' = evSettles + 1
    /\ IF rsp = "fail"
          THEN /\ evWait' = IF evWait = "pending" THEN "rejError" ELSE evWait
               /\ UNCHANGED <<evSummary, evFrames>>
          ELSE /\ evWait' = IF evWait = "pending" THEN "resolved" ELSE evWait
               /\ evSummary' = IF evWait = "pending"
                                  THEN [reason |-> r.body.reason,
                                        src |-> IF rsp = "frame" THEN "a.test.js"
                                                                 ELSE "<unknown>"]
                                  ELSE evSummary
               /\ evFrames' = evFrames \cup {[session |-> r.session, body |-> r.body,
                                              pending |-> (evWait = "pending")]}
    /\ UNCHANGED <<skipEntry, evTrackers, evContinues, evStops, evEnded>>

\* A session ends; onWillStopSession() of its tracker, if it has one.
EvWillStopSession(sess) ==
    /\ evWait # "none"
    /\ sess \notin evEnded
    /\ evEnded' = evEnded \cup {sess}
    /\ IF sess \in evTrackers /\ ~done
          THEN /\ done' = TRUE
               /\ evDisposed' = TRUE
               /\ evSettles' = evSettles + 1
               /\ evWait' = IF evWait = "pending" THEN "rejTerminated" ELSE evWait
          ELSE UNCHANGED <<done, evDisposed, evSettles, evWait>>
    /\ UNCHANGED <<skipEntry, evTrackers, evReqs, evContinues, evStops, evFrames,
                   evSummary>>

(***************************************************************************)
(* waitForNextStop, polling strategy (breakpoint_utility.ts)               *)
(***************************************************************************)
PollIdle ==
    /\ pollWait = "none"
    /\ poll = 1
    /\ to = 1
    /\ now = 0
    /\ pollPc = "idle"
    /\ pollLog = <<>>
    /\ tickAt = 0

\* The state when waitForNextStop(opts) returns: without an active session it
\* has thrown; with one, the first tick() has run up to 'await threads'.
PollCreated ==
    /\ poll \in 1..MaxPoll
    /\ to \in 1..MaxTimeout
    /\ now = 0
    /\ pollLog = <<>>
    /\ tickAt = 0
    /\ \E session \in BOOLEAN :
           IF session THEN pollWait = "pending" /\ pollPc = "threads"
                      ELSE pollWait = "threw" /\ pollPc = "done"

\* A catch block that gives up: the error of the tick rejects the wait.
RescheduleRejects(out, t) ==
    /\ pollLog' = Append(pollLog, [at |-> tickAt, out |-> out])
    /\ pollPc' = "done"
    /\ pollWait' = "rejError"
    /\ now' = t
    /\ UNCHANGED <<poll, to, tickAt>>

\* The end of a tick in its catch block: setTimeout(tick, poll).
Reschedule(out, t) ==
    /\ pollLog' = Append(pollLog, [at |-> tickAt, out |-> out])
    /\ pollPc' = "timer"
    /\ now' = t
    /\ UNCHANGED <<pollWait, poll, to, tickAt>>

\* The 'threads' request of the tick ends after lat: rsp is "thread" (a first
\* thread with a numeric id), "nothreads" or "fail" (the request threw).
PollThreads(rsp, lat) ==
    /\ pollPc = "threads"
    /\ IF rsp = "thread"
          THEN /\ pollPc' = "stack"
               /\ now' = now + lat
               /\ UNCHANGED <<pollWait, poll, to, pollLog, tickAt>>
          ELSE Reschedule(rsp, now + lat)

\* The 'stackTrace' request of the tick ends after lat: rsp is "valid" (a top
\* frame), "noframes" or "stfail" (the request threw).
PollStackTrace(rsp, lat) ==
    /\ pollPc = "stack"
    /\ IF rsp = "valid"
          THEN /\ pollWait' = "resolved"
               /\ pollPc' = "done"
               /\ pollLog' = Append(pollLog, [at |-> tickAt, out |-> "valid"])
               /\ now' = now + lat
               /\ UNCHANGED <<poll, to, tickAt>>
          ELSE Reschedule(rsp, now + lat)

\* Date.now() - started >= to: a tick that gives up at the bound itself.
TimedOutAtBound(elapsed) == elapsed >= to

\* if (Date.now() - started > to)
TimedOut(elapsed) == elapsed > to

\* The timer of setTimeout(tick, poll) fires, late by lat: tick() runs up to
\* its first await.
PollTick(lat) ==
    /\ pollPc = "timer"
    /\ now' = now + poll + lat
    /\ tickAt' = now'
    /\ IF TimedOut(now')
          THEN /\ pollWait' = "rejTimeout"
               /\ pollPc' = "done"
               /\ pollLog' = Append(pollLog, [at |-> now', out |-> "timeout"])
          ELSE /\ pollPc' = "threads"
               /\ UNCHANGED <<pollWait, pollLog>>
    /\ UNCHANGED <<poll, to>>

(***************************************************************************)
(* formatTerminalChunk (run_cmd_pty): text is a sequence of characters     *)
(***************************************************************************)
CR == "\r"
LF == "\n"
ESC == "ESC"
Blank == {" ", "\t"}

\* chunk.replace(/\r(?!\n)/g, '\n')
ReplaceLoneCR(t) ==
    [i \in 1..Len(t) |->
        IF t[i] = CR /\ (i = Len(t) \/ t[i + 1] # LF) THEN LF ELSE t[i]]

\* String.prototype.split('\n'): the pieces between the line feeds.
RECURSIVE SplitLF(_)
SplitLF(t) ==
    IF \A i \in 1..Len(t) : t[i] # LF THEN <<t>>
    ELSE LET k == CHOOSE i \in 1..Len(t) : t[i] = LF /\ \A j \in 1..(i - 1) : t[j] # LF
         IN  <<SubSeq(t, 1, k - 1)>> \o SplitLF(SubSeq(t, k + 1, Len(t)))

\* t matches (?:\x1B\[[0-9;]*m)* entirely.
RECURSIVE IsAnsiRun(_)
IsAnsiRun(t) ==
    \/ t = <<>>
    \/ /\ Len(t) >= 3
       /\ t[1] = ESC
       /\ t[2] = "["
       /\ \E k \in 3..Len(t) :
              /\ t[k] = "m"
              /\ \A j \in 3..(k - 1) : t[j] \in {"0", ";"}
              /\ IsAnsiRun(SubSeq(t, k + 1, Len(t)))

\* The end (exclusive) of the run of blanks of line that starts at i.
RECURSIVE BlankRunEnd(_, _)
BlankRunEnd(line, i) ==
    IF i <= Len(line) /\ line[i] \in Blank THEN BlankRunEnd(line, i + 1) ELSE i

\* line.replace(/[\t ]+(?=(?:\x1B\[[0-9;]*m)*$)/, ''): the leftmost run of
\* blanks that only colour codes follow is removed.
StripTrailingBlanks(line) ==
    LET starts == {i \in 1..Len(line) :
                      /\ line[i] \in Blank
                      /\ IsAnsiRun(SubSeq(line, BlankRunEnd(line, i), Len(line)))}
    IN  IF starts = {} THEN line
        ELSE LET i == CHOOSE x \in starts : \A y \in starts : x <= y
             IN  SubSeq(line, 1, i - 1) \o SubSeq(line, BlankRunEnd(line, i), Len(line))

\* lines.join('\r\n')
RECURSIVE JoinCRLF(_)
JoinCRLF(lines) ==
    IF lines = <<>> THEN <<>>
    ELSE IF Len(lines) = 1 THEN lines[1]
    ELSE lines[1] \o <<CR, LF>> \o JoinCRLF(Tail(lines))

FormatTerminalChunk(chunk) ==
    LET lines == SplitLF(ReplaceLoneCR(chunk))
        stripped == [i \in 1..Len(lines) |-> StripTrailingBlanks(lines[i])]
    IN  JoinCRLF(SelectSeq(stripped, LAMBDA l : Len(l) > 0))

\* What a chunk is made of: a line end, a blank, a visible character or a
\* whole colour sequence ESC [ m.
Tokens == {CR, LF, " ", "\t", "a", "SGR"}

\* The characters of a sequence of tokens.
RECURSIVE Chars(_)
Chars(ts) ==
    IF ts = <<>> THEN <<>>
    ELSE (IF Head(ts) = "SGR" THEN <<ESC, "[", "m">> ELSE <<Head(ts)>>) \o Chars(Tail(ts))

\* The chunks of at most MaxText tokens.
Texts == {Chars(ts) : ts \in UNION {[1..n -> Tokens] : n \in 0..MaxText}}

FmtIdle ==
    /\ fmtPc = "idle"
    /\ fmtIn = <<>>
    /\ fmtOut1 = <<>>
    /\ fmtOut2 = <<>>

\* A chunk d.toString() has arrived and is about to be formatted.
FmtInput ==
    /\ fmtPc = "input"
    /\ fmtIn \in Texts
    /\ fmtOut1 = <<>>
    /\ fmtOut2 = <<>>

\* const text = formatTerminalChunk(d.toString())
FmtApply ==
    /\ fmtPc = "input"
    /\ fmtOut1' = FormatTerminalChunk(fmtIn)
    /\ fmtPc' = "once"
    /\ UNCHANGED <<fmtIn, fmtOut2>>

\* The text already formatted is formatted again.
FmtReapply ==
    /\ fmtPc = "once"
    /\ fmtOut2' = FormatTerminalChunk(fmtOut1)
    /\ fmtPc' = "twice"
    /\ UNCHANGED <<fmtIn, fmtOut1>>

(***************************************************************************)
(* executeCommandInPty (run_cmd_pty) with the options of launchJestProcess *)
(***************************************************************************)
\* /Debugger listening on ws:\/\//, a literal, shortened to two characters.
InterceptPattern == <<"D", "w">>

\* RegExp.prototype.test for a literal pattern: pat occurs in text.
Test(pat, text) ==
    \E i \in 1..(Len(text) - Len(pat) + 1) : SubSeq(text, i, i + Len(pat) - 1) = pat

PtyChars == {"D", "w", " "}
\* The chunks a 'data' event can carry.
PtyChunks == UNION {[1..n -> PtyChars] : n \in 1..MaxChunkLen}

PtyIdle ==
    /\ child = "none"
    /\ output = <<>>
    /\ hadError = FALSE
    /\ ptyResult = "pending"
    /\ chunks = 0
    /\ interceptCalls = 0
    /\ chunkMatched = FALSE
    /\ readyWait = "none"
    /\ readyTimer = "off"
    /\ readyLateRuns = 0
    /\ platform = "posix"
    /\ procAlive = FALSE
    /\ descs = 0
    /\ killCalls = 0
    /\ resolves = 0
    /\ closeCode = "none"
    /\ timeoutAlive = FALSE

\* The state when launchJestProcess has returned its promise: the timer is
\* set, executeCommandInPty has created the terminal, open() has not run yet.
PtyCreated ==
    /\ child = "none"
    /\ output = <<>>
    /\ hadError = FALSE
    /\ ptyResult = "pending"
    /\ chunks = 0
    /\ interceptCalls = 0
    /\ chunkMatched = FALSE
    /\ readyWait = "pending"
    /\ readyTimer = "armed"
    /\ readyLateRuns = 0
    /\ platform \in {"win32", "posix"}
    /\ procAlive = FALSE
    /\ descs = 0
    /\ killCalls = 0
    /\ resolves = 0
    /\ closeCode = "none"
    /\ timeoutAlive = FALSE

\* pty.open(): spawn(options.program, options.args, {cwd, env}) and the four
\* listeners; ok: the program could be started (otherwise the child object
\* has no process and emits 'error').
PtyOpen(ok) ==
    /\ readyWait # "none"
    /\ child = "none"
    /\ child' = IF ok THEN "running" ELSE "spawnFailed"
    /\ procAlive' = ok
    /\ UNCHANGED <<output, hadError, ptyResult, chunks, interceptCalls, chunkMatched,
                   readyWait, readyTimer, readyLateRuns, platform, descs, killCalls,
                   resolves, closeCode, timeoutAlive>>

\* onIntercept of launchJestProcess: clearTimeout(timeout); resolve().
OnIntercept ==
    /\ interceptCalls' = interceptCalls + 1
    /\ readyTimer' = IF readyTimer = "armed" THEN "cleared" ELSE readyTimer
    /\ readyWait' = IF readyWait = "pending" THEN "resolved" ELSE readyWait
    /\ readyLateRuns' = IF readyTimer = "fired" THEN readyLateRuns + 1 ELSE readyLateRuns

\* child.stdout / child.stderr .on('data', d): the two handlers are the same.
PtyData(stream, d) ==
    /\ child = "running"
    /\ chunks < MaxChunks
    /\ chunks' = chunks + 1
    /\ LET text == FormatTerminalChunk(d)
       IN  /\ output' = output \o text
           /\ IF Test(InterceptPattern, text)
                 THEN OnIntercept /\ chunkMatched' = TRUE
                 ELSE UNCHANGED <<interceptCalls, readyTimer, readyWait, readyLateRuns,
                                  chunkMatched>>
    /\ UNCHANGED <<child, hadError, ptyResult, platform, procAlive, descs, killCalls,
                   resolves, closeCode, timeoutAlive>>

\* child.on('error', err): the process could not be spawned.
PtyError ==
    /\ child = "spawnFailed"
    /\ child' = "failed"
    /\ output' = output \o <<"E">>
    /\ hadError' = TRUE
    /\ UNCHANGED <<ptyResult, chunks, interceptCalls, chunkMatched, readyWait,
                   readyTimer, readyLateRuns, platform, procAlive, descs, killCalls,
                   resolves, closeCode, timeoutAlive>>

\* The code argument of 'close': the exit code, null when a signal ended the
\* process, the negative errno when it could not be spawned.
ExitCodes == {"0", "1", "null", "errno"}

\* An exit status test that takes only a numeric non-zero code for a failure.
HadErrorNumericOnly(code) == code \notin {"0", "null"}

\* hadError = code !== 0
HadError(code) == code # "0"

\* child.on('close', code): resolve is set for 50 ms later.  A process that
\* could not be spawned closes with the errno, a killed one not with 0.
PtyClose(code) ==
    /\ code \in ExitCodes
    /\ \/ child = "failed" /\ code = "errno"
       \/ child = "running" /\ procAlive /\ code \in {"0", "1", "null"}
       \/ child = "running" /\ ~procAlive /\ code \in {"1", "null"}
    /\ ptyResult = "pending"
    /\ child' = "closed"
    /\ procAlive' = FALSE
    /\ hadError' = HadError(code)
    /\ closeCode' = code
    /\ ptyResult' = "closing"
    /\ UNCHANGED <<output, chunks, interceptCalls, chunkMatched, readyWait,
                   readyTimer, readyLateRuns, platform, descs, killCalls, resolves,
                   timeoutAlive>>

\* The 50 ms timer: resolve({content, isError: hadError}); launchJestProcess
\* only logs the result.
PtyResolve ==
    /\ ptyResult = "closing"
    /\ ptyResult' = IF hadError THEN "error" ELSE "ok"
    /\ resolves' = resolves + 1
    /\ UNCHANGED <<child, output, hadError, chunks, interceptCalls, chunkMatched,
                   readyWait, readyTimer, readyLateRuns, platform, procAlive, descs,
                   killCalls,
                   closeCode, timeoutAlive>>

\* The 30 s timer of launchJestProcess: reject(new Error('Timeout: ...')).
ReadyTimeout ==
    /\ readyTimer = "armed"
    /\ readyTimer' = "fired"
    /\ readyWait' = IF readyWait = "pending" THEN "rejTimeout" ELSE readyWait
    /\ timeoutAlive' = (readyWait = "pending" /\ procAlive)
    /\ UNCHANGED <<child, output, hadError, ptyResult, chunks, interceptCalls,
                   chunkMatched, readyLateRuns, platform, procAlive, descs, killCalls,
                   resolves, closeCode>>

\* The spawned program starts a process of its own.
PtyFork ==
    /\ child = "running"
    /\ procAlive
    /\ descs < MaxDesc
    /\ descs' = descs + 1
    /\ UNCHANGED <<child, output, hadError, ptyResult, chunks, interceptCalls,
                   chunkMatched, readyWait, readyTimer, readyLateRuns, platform,
                   procAlive, killCalls, resolves, closeCode, timeoutAlive>>

\* The options of both spawn calls of open() have no 'detached': the child
\* stays in the process group of the extension host and leads none.
Detached == FALSE

\* killProcessTree(child): the spawned process and its n descendants after
\* the call.  win32: taskkill /PID pid /T /F ends the tree of a live pid and
\* fails for a pid that is gone.  Otherwise: process.kill(-pid, 'SIGTERM')
\* signals the process group pid, which exists only for a detached child;
\* every error is ignored.
KillProcessTree(plat, alive, n) ==
    IF plat = "win32"
       THEN IF alive THEN [alive |-> FALSE, descs |-> 0]
                     ELSE [alive |-> alive, descs |-> n]
       ELSE IF Detached /\ alive THEN [alive |-> FALSE, descs |-> 0]
                                 ELSE [alive |-> alive, descs |-> n]

\* handleInput('\x03'): Ctrl+C in the terminal; child.killed is never set
\* because nothing here calls child.kill() before.
HandleInputCtrlC ==
    /\ child # "none"
    /\ killCalls < MaxCtrlC
    /\ killCalls' = killCalls + 1
    /\ LET k == KillProcessTree(platform, procAlive, descs)
       IN  /\ procAlive' = k.alive
           /\ descs' = k.descs
    /\ UNCHANGED <<child, output, hadError, ptyResult, chunks, interceptCalls,
                   chunkMatched, readyWait, readyTimer, readyLateRuns, platform,
                   resolves, closeCode, timeoutAlive>>

(***************************************************************************)
(* findNearestJestBin                                                      *)
(***************************************************************************)
\* return undefined
NotFound == [found |-> FALSE, root |-> 0]

\* path.dirname(dir): the parent directory; the root is its own parent.
Dirname(d) == IF d = 0 THEN 0 ELSE d - 1

\* fs.existsSync(path.join(dir, 'node_modules', 'jest', 'bin', 'jest.js'))
ExistsJestBin(d) == d \in markers

\* A loop that stops as soon as the parent is the root, without probing it.
ReachedRootEarly(d) == Dirname(d) = 0

\* parent === dir
ReachedRoot(d) == Dirname(d) = d

FindIdle ==
    /\ findPc = "idle"
    /\ startDir = 0
    /\ markers = {}
    /\ dir = 0
    /\ probes = <<>>
    /\ findResult = NotFound

\* findNearestJestBin(startDir) is entered: let dir = startDir.
FindCalled ==
    /\ findPc = "loop"
    /\ startDir \in 0..MaxDepth
    /\ markers \in SUBSET (0..MaxDepth)
    /\ dir = startDir
    /\ probes = <<>>
    /\ findResult = NotFound

\* One iteration of while (true).
FindStep ==
    /\ findPc = "loop"
    /\ probes' = Append(probes, dir)
    /\ IF ExistsJestBin(dir)
          THEN /\ findResult' = [found |-> TRUE, root |-> dir]
               /\ findPc' = "done"
               /\ UNCHANGED dir
          ELSE IF ReachedRoot(dir)
          THEN /\ findResult' = NotFound
               /\ findPc' = "done"
               /\ UNCHANGED dir
          ELSE /\ dir' = Dirname(dir)
               /\ UNCHANGED <<findPc, findResult>>
    /\ UNCHANGED <<startDir, markers>>

(***************************************************************************)
(* debugJestTest, listener flow: debugSessionPromise and startDebugging    *)
(***************************************************************************)
HeurIdle ==
    /\ hPc = "idle"
    /\ hBp = FALSE
    /\ hSubs = {}
    /\ hTimer = "off"
    /\ hChecks = 0
    /\ hPromise = NoResult
    /\ hResult = NoResult
    /\ hSession = "none"
    /\ hActive = FALSE
    /\ hStopSeen = FALSE

\* The state at 'await vscode.debug.startDebugging': the executor of
\* debugSessionPromise has registered the start listener and the early
\* termination listener.
HeurCreated ==
    /\ hPc = "attaching"
    /\ hBp \in BOOLEAN
    /\ hSubs = {"start", "terminateEarly"}
    /\ hTimer = "off"
    /\ hChecks = 0
    /\ hPromise = NoResult
    /\ hResult = NoResult
    /\ hSession = "none"
    /\ hActive = FALSE
    /\ hStopSeen = FALSE

\* resolve({content, isError}) of debugSessionPromise: only the first call counts.
Settled(promise, text, isError) ==
    IF promise = NoResult THEN Return(text, isError) ELSE promise

\* cleanup(): the listeners the four variables hold at that time; the outer
\* terminateDisposable holds the second termination listener by then.
CleanedUp(subs) == subs \ {"breakpoints", "activeSession", "customEvent", "terminate"}

\* if (timeoutHandle) clearTimeout(timeoutHandle)
Cleared(timer) == IF timer = "armed" THEN "cleared" ELSE timer

\* onDidStartDebugSession(session): the session of startDebugging starts.
HSessionStart ==
    /\ hPc \in {"attaching", "awaitEvents"}
    /\ hSession = "none"
    /\ hSession' = "started"
    /\ IF "start" \notin hSubs
          THEN UNCHANGED <<hSubs, hTimer, hPromise>>
          ELSE IF hBp
          THEN /\ hSubs' = (hSubs \ {"start"}) \cup
                              {"breakpoints", "activeSession", "customEvent", "terminate"}
               /\ hTimer' = "armed"
               /\ UNCHANGED hPromise
          ELSE /\ hSubs' = hSubs \ {"start", "terminateEarly"}
               /\ hPromise' = Settled(hPromise, "Debugger attached to Jest test", FALSE)
               /\ UNCHANGED hTimer
    /\ UNCHANGED <<hPc, hBp, hChecks, hResult, hActive, hStopSeen>>

\* onDidChangeActiveDebugSession(activeSession): with a session, the listener
\* sets a 500 ms timer.
HActiveChange(defined) ==
    /\ hPc \in {"attaching", "awaitEvents", "returned"}
    /\ hActive # defined
    /\ defined => hSession = "started"
    /\ hActive' = defined
    /\ hChecks' = IF "activeSession" \in hSubs /\ defined /\ hChecks < MaxChecks
                     THEN hChecks + 1 ELSE hChecks
    /\ UNCHANGED <<hPc, hBp, hSubs, hTimer, hPromise, hResult, hSession, hStopSeen>>

\* The 500 ms timer: if (vscode.debug.activeDebugSession) cleanup, resolve.
HCheck ==
    /\ hChecks > 0
    /\ hChecks' = hChecks - 1
    /\ IF hActive
          THEN /\ hSubs' = CleanedUp(hSubs)
               /\ hTimer' = Cleared(hTimer)
               /\ hPromise' = Settled(hPromise,
                                      "Debug session paused. Breakpoint may have been hit",
                                      FALSE)
          ELSE UNCHANGED <<hSubs, hTimer, hPromise>>
    /\ UNCHANGED <<hPc, hBp, hResult, hSession, hActive, hStopSeen>>

\* onDidReceiveDebugSessionCustomEvent(event)
HCustomEvent(ev) ==
    /\ hSession = "started"
    /\ "customEvent" \in hSubs
    /\ IF ev \in {"stopped", "breakpoint", "step"}
          THEN /\ hSubs' = CleanedUp(hSubs)
               /\ hTimer' = Cleared(hTimer)
               /\ hPromise' = Settled(hPromise,
                                      "Debug session paused at breakpoint. Breakpoint was hit",
                                      FALSE)
          ELSE UNCHANGED <<hSubs, hTimer, hPromise>>
    /\ UNCHANGED <<hPc, hBp, hChecks, hResult, hSession, hActive, hStopSeen>>

\* onDidTerminateDebugSession: the session ends; first the early listener of
\* the executor, then the listener set up when the session started.
HTerminate ==
    /\ hSession = "started"
    /\ hSession' = "ended"
    /\ hActive' = FALSE
    /\ IF "terminateEarly" \in hSubs /\ ~hBp
          THEN /\ hSubs' = hSubs \ {"start", "terminateEarly"}
               /\ hPromise' = Settled(hPromise,
                                      "Debug session terminated before attachment", TRUE)
               /\ UNCHANGED hTimer
          ELSE IF "terminate" \in hSubs
          THEN /\ hSubs' = CleanedUp(hSubs)
               /\ hTimer' = Cleared(hTimer)
               /\ hPromise' = Settled(hPromise,
                                      "Debug session terminated before breakpoint was hit",
                                      TRUE)
          ELSE UNCHANGED <<hSubs, hTimer, hPromise>>
    /\ UNCHANGED <<hPc, hBp, hChecks, hResult, hStopSeen>>

\* The setTimeout(..., TIMEOUT_MS) callback: cleanup, resolve with isError false.
HTimeout ==
    /\ hTimer = "armed"
    /\ hTimer' = "fired"
    /\ hSubs' = CleanedUp(hSubs)
    /\ hPromise' = Settled(hPromise, "Timeout: Breakpoint was not hit within 5 minutes",
                           FALSE)
    /\ UNCHANGED <<hPc, hBp, hChecks, hResult, hSession, hActive, hStopSeen>>

\* 'await vscode.debug.startDebugging' returns r ("true" | "false") or throws.
HAttachReturns(r) ==
    /\ hPc = "attaching"
    /\ r = "true" => hSession # "none"
    /\ IF r = "true"
          THEN /\ hPc' = "awaitEvents"
               /\ UNCHANGED hResult
          ELSE /\ hPc' = "returned"
               /\ hResult' = IF r = "false"
                                THEN Return("Could not start debug session.", TRUE)
                                ELSE Return("Failed to debug Jest test", TRUE)
    /\ UNCHANGED <<hBp, hSubs, hTimer, hChecks, hPromise, hSession, hActive, hStopSeen>>

\* 'return await debugSessionPromise'
HReturn ==
    /\ hPc = "awaitEvents"
    /\ hPromise # NoResult
    /\ hResult' = hPromise
    /\ hPc' = "returned"
    /\ UNCHANGED <<hBp, hSubs, hTimer, hChecks, hPromise, hSession, hActive, hStopSeen>>

\* The debuggee stops; atTarget: at the file and line of the breakpoint.  No
\* listener of this flow receives the 'stopped' event of the protocol.
HStop(atTarget) ==
    /\ hSession = "started"
    /\ hStopSeen' = (hStopSeen \/ atTarget)
    /\ UNCHANGED <<hPc, hBp, hSubs, hTimer, hChecks, hPromise, hResult, hSession, hActive>>

(***************************************************************************)
(* The pause summary of the event strategy and of the polling strategy     *)
(***************************************************************************)
\* An optional value of the protocol: <<>> is undefined, <<v>> is v.
Opt(S) == {<<>>} \cup {<<v>> : v \in S}

\* a ?? b
Coalesce(a, b) == IF a = <<>> THEN b ELSE a

\* The top stack frame of a 'stackTrace' response.
StackFrames == [path : Opt({"/w/a.test.js"}), sname : Opt({"a.test.js"}),
                line : Opt(1..MaxLine), column : Opt({1}), name : Opt({"fn"})]

\* A stop of the debuggee: msg.body of the 'stopped' event and the top frame.
StopBodies == [reason : Reasons, description : Opt({"Paused on breakpoint"}),
               frame : StackFrames]

NoStop == [reason |-> "none", description |-> <<>>,
           frame |-> [path |-> <<>>, sname |-> <<>>, line |-> <<>>, column |-> <<>>,
                      name |-> <<>>]]

NoPauseSummary == [head |-> "none", reason |-> <<>>, at |-> <<>>, frame |-> <<>>,
              stackFrame |-> <<>>]

\* The template of onDidSendMessage: the reason of the event with its
\* description, the place and the function name.
EventSummary(stop) ==
    LET f == stop.frame
    IN  [head       |-> "Debugger stopped",
         reason     |-> <<stop.reason>> \o stop.description,
         at         |-> <<Coalesce(Coalesce(f.path, f.sname), <<"<unknown>">>)[1],
                          Coalesce(f.line, <<0>>)[1],
                          Coalesce(f.column, <<0>>)[1]>>,
         frame      |-> Coalesce(f.name, <<"<anonymous>">>),
         stackFrame |-> <<>>]

\* The template of tick: the reason is the literal 'breakpoint', and a fourth
\* line holds the frame as JSON.
PollSummary(stop) ==
    LET f == stop.frame
    IN  [head       |-> "Debugger stopped",
         reason     |-> <<"breakpoint">>,
         at         |-> <<Coalesce(Coalesce(f.path, f.sname), <<"<unknown>">>)[1],
                          Coalesce(f.line, <<0>>)[1],
                          Coalesce(f.column, <<0>>)[1]>>,
         frame      |-> Coalesce(f.name, <<"<anonymous>">>),
         stackFrame |-> <<f>>]

SumIdle ==
    /\ sStop = NoStop
    /\ sEvent = NoPauseSummary
    /\ sPoll = NoPauseSummary

\* The debuggee has stopped and both waits are pending.
SumStopped ==
    /\ sStop \in StopBodies
    /\ sEvent = NoPauseSummary
    /\ sPoll = NoPauseSummary

\* onDidSendMessage of the event strategy handles the 'stopped' event.
SumEvent ==
    /\ sStop # NoStop
    /\ sEvent = NoPauseSummary
    /\ sEvent' = EventSummary(sStop)
    /\ UNCHANGED <<sStop, sPoll>>

\* tick of the polling strategy receives the frame of the same stop.
SumPoll ==
    /\ sStop # NoStop
    /\ sPoll = NoPauseSummary
    /\ sPoll' = PollSummary(sStop)
    /\ UNCHANGED <<sStop, sEvent>>

(***************************************************************************)
(* debugContinue (breakpoint_utility.ts)                                   *)
(***************************************************************************)
ContIdle ==
    /\ cPc = "idle"
    /\ dbg = "none"
    /\ cFrom = "none"

\* The state at 'await vscode.commands.executeCommand(continue)': the call
\* waitForNextStop() before it has sent the 'threads' request of its first
\* tick, or has thrown without an active session.
ContCalled ==
    /\ PollCreated
    /\ IF pollWait = "threw"
          THEN cPc = "threw" /\ dbg = "none"
          ELSE cPc = "awaitCommand" /\ dbg = "pausedOld"
    /\ cFrom = "none"

\* workbench.action.debug.continue reaches the debug adapter: the debuggee
\* resumes and the command's promise resolves.
ContinueCommand ==
    /\ cPc = "awaitCommand"
    /\ cPc' = "awaitWait"
    /\ dbg' = IF dbg = "pausedOld" THEN "running" ELSE dbg
    /\ UNCHANGED cFrom

\* The debuggee stops again.
ContStop ==
    /\ dbg = "running"
    /\ dbg' = "pausedNew"
    /\ UNCHANGED <<cPc, cFrom>>

\* The 'stackTrace' request of a tick is answered by the adapter: with a
\* frame only while the debuggee is paused.
ContStackTrace(rsp, lat) ==
    /\ rsp = "valid" => dbg \in {"pausedOld", "pausedNew"}
    /\ PollStackTrace(rsp, lat)
    /\ cFrom' = IF rsp = "valid" THEN dbg ELSE cFrom
    /\ UNCHANGED <<cPc, dbg>>

\* 'const result = await wait; return result'
ContReturn ==
    /\ cPc = "awaitWait"
    /\ pollWait \in {"resolved", "rejTimeout"}
    /\ cPc' = "returned"
    /\ UNCHANGED <<dbg, cFrom>>

(***************************************************************************)
(* attachAndAwaitStop (debug_jest_test.ts)                                 *)
(***************************************************************************)
AasIdle ==
    /\ aasPc = "idle"
    /\ aasStarted = {}
    /\ evMissed = 0

\* The state at 'await vscode.debug.startDebugging(workspaceFolder,
\* debugConfig)': waitForNextStop has not been called.
AasCalled ==
    /\ aasPc = "attaching"
    /\ aasStarted = {}
    /\ evMissed = 0

\* VS Code starts a debug session, the parent first; it gets a tracker from
\* the factory if the factory is registered at that time.
AasSessionStart(sess) ==
    /\ aasPc \in {"attaching", "waiting"}
    /\ sess \notin aasStarted
    /\ sess = "child" => "parent" \in aasStarted
    /\ aasStarted' = aasStarted \cup {sess}
    /\ IF evWait # "none" /\ ~evDisposed /\ sess \notin evEnded
          THEN EvCreateTracker(sess)
          ELSE UNCHANGED evVars
    /\ UNCHANGED <<aasPc, evMissed>>

\* startDebugging returns ok: false throws, true calls waitForNextStop(),
\* which registers the tracker factory and returns the pending promise.
AasStartDebuggingReturns(ok) ==
    /\ aasPc = "attaching"
    /\ ok => "parent" \in aasStarted
    /\ IF ok
          THEN /\ aasPc' = "waiting"
               /\ evWait' = "pending"
               /\ skipEntry' = TRUE
               /\ UNCHANGED <<done, evDisposed, evTrackers, evReqs, evContinues, evStops,
                              evFrames, evSettles, evSummary, evEnded>>
          ELSE /\ aasPc' = "threw"
               /\ UNCHANGED evVars
    /\ UNCHANGED <<aasStarted, evMissed>>

\* The adapter of a started session sends a 'stopped' event: to the tracker
\* of the session.
AasStopped(sess, b) ==
    /\ sess \in aasStarted
    /\ EvStopped(sess, b)
    /\ UNCHANGED aasVars

\* The same for a session that has no tracker: no code of the wait runs.
AasStoppedNoTracker(sess, b) ==
    /\ sess \in aasStarted
    /\ sess \notin evTrackers
    /\ sess \notin evEnded
    /\ evMissed < MaxStops
    /\ evMissed' = evMissed + 1
    /\ UNCHANGED <<aasPc, aasStarted, evVars>>

\* A started session ends.
AasSessionEnd(sess) ==
    /\ sess \in aasStarted
    /\ EvWillStopSession(sess)
    /\ UNCHANGED aasVars

\* 'return await waitForNextStop()'
AasReturn ==
    /\ aasPc = "waiting"
    /\ evWait \in {"resolved", "rejError", "rejTerminated"}
    /\ aasPc' = "returned"
    /\ UNCHANGED <<aasStarted, evMissed, evVars>>

(***************************************************************************)
(* Specifications                                                          *)
(***************************************************************************)
vars == <<bootVars, orchVars, bpVars, evVars, pollVars, ptyVars, fmtVars, auxVars>>

(***************************************************************************)
(* runCmdInTerminal (ptyHelper.ts)                                         *)
(***************************************************************************)
RunIdle ==
    /\ rProc = "none"
    /\ rUntil = FALSE
    /\ rTimer = "off"
    /\ rPromise = "none"
    /\ rFinishes = 0
    /\ rOutput = <<>>
    /\ rAtTimeout = "n/a"
    /\ rExit = "none"

\* The state when runCmdInTerminal has returned its promise: the terminal is
\* created and shown, the timer is set if wait.timeoutMs is given, open() has
\* not run.
RunCreated ==
    /\ rProc = "none"
    /\ rUntil \in BOOLEAN
    /\ rTimer \in {"off", "armed"}
    /\ rPromise = "pending"
    /\ rFinishes = 0
    /\ rOutput = <<>>
    /\ rAtTimeout = "n/a"
    /\ rExit = "none"

\* open(): nodePty.spawn, then the onData and onExit listeners.
RunOpen ==
    /\ rPromise # "none"
    /\ rProc = "none"
    /\ rProc' = "running"
    /\ UNCHANGED <<rUntil, rTimer, rPromise, rFinishes, rOutput, rAtTimeout, rExit>>

\* clearTimeout(timer)
RunCleared(timer) == IF timer = "armed" THEN "cleared" ELSE timer

\* proc.kill()
RunKilled(proc) == IF proc = "running" THEN "killed" ELSE proc

\* wait?.until?.test(output): the pattern is tested on the whole accumulated
\* output, in which a match stays one.
UntilMatches(until, out) == until /\ \E i \in 1..Len(out) : out[i] = "m"

\* proc.onData(data): the chunk is appended and the pattern tested;
\* finish(null) has no guard.
RunData(data) ==
    /\ rProc \in {"running", "killed"}
    /\ Len(rOutput) < MaxChunks
    /\ rOutput' = Append(rOutput, data)
    /\ IF UntilMatches(rUntil, rOutput')
          THEN /\ rFinishes' = rFinishes + 1
               /\ rTimer' = RunCleared(rTimer)
               /\ rProc' = RunKilled(rProc)
               /\ rPromise' = IF rPromise = "pending" THEN "resolved" ELSE rPromise
               /\ rExit' = IF rPromise = "pending" THEN "null" ELSE rExit
          ELSE UNCHANGED <<rFinishes, rTimer, rProc, rPromise, rExit>>
    /\ UNCHANGED <<rUntil, rAtTimeout>>

\* proc.onExit({exitCode}): finish(exitCode).
RunExit(exitCode) ==
    /\ rProc \in {"running", "killed"}
    /\ rProc' = "exited"
    /\ rFinishes' = rFinishes + 1
    /\ rTimer' = RunCleared(rTimer)
    /\ rPromise' = IF rPromise = "pending" THEN "resolved" ELSE rPromise
    /\ rExit' = IF rPromise = "pending" THEN exitCode ELSE rExit
    /\ UNCHANGED <<rUntil, rOutput, rAtTimeout>>

\* setTimeout(() => reject(new Error('timeout')), wait.timeoutMs)
RunTimeout ==
    /\ rTimer = "armed"
    /\ rTimer' = "fired"
    /\ rPromise' = IF rPromise = "pending" THEN "rejTimeout" ELSE rPromise
    /\ rAtTimeout' = rProc
    /\ UNCHANGED <<rProc, rUntil, rFinishes, rOutput, rExit>>

(***************************************************************************)
(* executeCommandInPty: the spawn and the 'data' listeners of open()       *)
(***************************************************************************)
Streams == {"stdout", "stderr"}

IcIdle ==
    /\ iChild = "none"
    /\ iListening = {}
    /\ iFlowing = {}
    /\ iPipe = [st \in Streams |-> <<>>]
    /\ iEmitted = 0
    /\ iMatchEmitted = 0
    /\ iTested = 0
    /\ iLost = 0
    /\ iIntercepts = 0

\* An open() that listens to stdout only, with stderr read all the same.
IcOpenStdoutOnly ==
    /\ iChild = "none"
    /\ iChild' = "running"
    /\ iListening' = {"stdout"}
    /\ iFlowing' = Streams
    /\ UNCHANGED <<iPipe, iEmitted, iMatchEmitted, iTested, iLost, iIntercepts>>

\* pty.open(): spawn and, in the same synchronous block, the 'data' listeners
\* of child.stdout and child.stderr; a stream is read from its first 'data'
\* listener on.
IcOpen ==
    /\ iChild = "none"
    /\ iChild' = "running"
    /\ iListening' = Streams
    /\ iFlowing' = Streams
    /\ UNCHANGED <<iPipe, iEmitted, iMatchEmitted, iTested, iLost, iIntercepts>>

\* interceptPattern matches the chunk as the listener sees it.
ChunkMatches(d) == Test(InterceptPattern, FormatTerminalChunk(d))

\* The spawned process writes a chunk to one of its pipes, at any time after
\* the spawn.
IcWrite(stream, d) ==
    /\ iChild = "running"
    /\ iEmitted < MaxChunks
    /\ iPipe' = [iPipe EXCEPT ![stream] = Append(@, d)]
    /\ iEmitted' = iEmitted + 1
    /\ iMatchEmitted' = IF ChunkMatches(d) THEN iMatchEmitted + 1 ELSE iMatchEmitted
    /\ UNCHANGED <<iChild, iListening, iFlowing, iTested, iLost, iIntercepts>>

\* A 'data' event of a stream that is read: its listener, if there is one,
\* tests the chunk and calls onIntercept on a match.
IcData(stream) ==
    /\ stream \in iFlowing
    /\ iPipe[stream] # <<>>
    /\ iPipe' = [iPipe EXCEPT ![stream] = Tail(@)]
    /\ IF stream \in iListening
          THEN /\ iTested' = iTested + 1
               /\ iIntercepts' = IF ChunkMatches(Head(iPipe[stream]))
                                    THEN iIntercepts + 1 ELSE iIntercepts
               /\ UNCHANGED iLost
          ELSE /\ iLost' = iLost + 1
               /\ UNCHANGED <<iTested, iIntercepts>>
    /\ UNCHANGED <<iChild, iListening, iFlowing, iEmitted, iMatchEmitted>>

(***************************************************************************)
(* executeCommandInPty: a text that arrives in two 'data' events           *)
(***************************************************************************)
SplitIdle ==
    /\ kTokens = <<>>
    /\ kCut = 0
    /\ kPc = "idle"
    /\ kOutput = <<>>

\* The process has written a text of at most MaxText tokens; the stream
\* hands it over in two chunks, neither of them empty.
SplitWritten ==
    /\ kTokens \in UNION {[1..n -> Tokens] : n \in 2..MaxText}
    /\ kCut \in 1..(Len(kTokens) - 1)
    /\ kPc = "first"
    /\ kOutput = <<>>

\* on('data', d) for the first chunk: output += formatTerminalChunk(d.toString())
SplitFirst ==
    /\ kPc = "first"
    /\ kOutput' = kOutput \o FormatTerminalChunk(Chars(SubSeq(kTokens, 1, kCut)))
    /\ kPc' = "second"
    /\ UNCHANGED <<kTokens, kCut>>

\* on('data', d) for the second chunk.
SplitSecond ==
    /\ kPc = "second"
    /\ kOutput' = kOutput \o
                     FormatTerminalChunk(Chars(SubSeq(kTokens, kCut + 1, Len(kTokens))))
    /\ kPc' = "done"
    /\ UNCHANGED <<kTokens, kCut>>

(***************************************************************************)
(* unsetBreakpoint (breakpoint_utility.ts)                                 *)
(***************************************************************************)
\* The file names a caller passes: two spellings of one file and another file.
FileNames == {"c:/w/a.js", "C:/w/a.js", "c:/w/b.js"}

\* vscode.Uri.file(fileName).toString(): the drive letter in lower case, the
\* colon encoded.
UriString(fileName) ==
    IF fileName \in {"c:/w/a.js", "C:/w/a.js"} THEN "file:///c%3A/w/a.js"
    ELSE "file:///c%3A/w/b.js"

Uris == {UriString(f) : f \in FileNames}

\* A breakpoint of vscode.debug.breakpoints: a SourceBreakpoint with its
\* location, or a FunctionBreakpoint.
Breakpoints == [kind : {"source"}, uri : Uris, line : 0..(MaxLine - 1), character : {0, 1}]
                  \cup {[kind |-> "function", uri |-> "none", line |-> 0, character |-> 0]}

\* The sets of at most MaxBps breakpoints.
BreakpointSets == {{}} \cup UNION {{{f[i] : i \in 1..n} : f \in [1..n -> Breakpoints]} :
                                      n \in 1..MaxBps}

UnsetArgs == [fileName : FileNames, lineNumber : 0..(MaxLine - 1),
              columnNumber : Opt({0, 1})]

UnsetIdle ==
    /\ uPc = "idle"
    /\ uArgs = [fileName |-> "c:/w/a.js", lineNumber |-> 0, columnNumber |-> <<>>]
    /\ uBreakpoints = {}
    /\ uBefore = {}
    /\ uRemoveCalls = 0

\* unsetBreakpoint(fileName, lineNumber, columnNumber) is about to run.
UnsetCalled ==
    /\ uPc = "called"
    /\ uArgs \in UnsetArgs
    /\ uBreakpoints \in BreakpointSets
    /\ uBefore = uBreakpoints
    /\ uRemoveCalls = 0

\* A filter that does not look at the column.
BreakpointsToRemoveAnyColumn(bps, fileName, lineNumber, columnNumber) ==
    {bp \in bps :
        /\ bp.kind = "source"
        /\ bp.uri = UriString(fileName)
        /\ bp.line = lineNumber}

\* const breakpointsToRemove = vscode.debug.breakpoints.filter(...)
BreakpointsToRemove(bps, fileName, lineNumber, columnNumber) ==
    LET column == Coalesce(columnNumber, <<0>>)[1]
    IN  {bp \in bps :
            IF bp.kind = "source"
               THEN /\ bp.uri = UriString(fileName)
                    /\ bp.line = lineNumber
                    /\ bp.character = column
               ELSE FALSE}

\* The whole function: the filter, then removeBreakpoints if it found some.
UnsetBreakpoint ==
    /\ uPc = "called"
    /\ LET toRemove == BreakpointsToRemove(uBreakpoints, uArgs.fileName, uArgs.lineNumber,
                                           uArgs.columnNumber)
       IN  IF toRemove # {}
              THEN /\ uBreakpoints' = uBreakpoints \ toRemove
                   /\ uRemoveCalls' = uRemoveCalls + 1
              ELSE UNCHANGED <<uBreakpoints, uRemoveCalls>>
    /\ uPc' = "done"
    /\ UNCHANGED <<uArgs, uBefore>>

LateIdle == RunIdle /\ IcIdle /\ SplitIdle /\ UnsetIdle

AuxIdle == FindIdle /\ HeurIdle /\ SumIdle /\ ContIdle /\ AasIdle /\ LateIdle

flowVars == <<bootVars, orchVars, bpVars, evVars, pollVars, ptyVars, fmtVars>>

\* The debug flows and the terminal at rest.
FlowsIdle == BootIdle /\ OrchIdle /\ req = [testFilePath |-> "", breakpointId |-> ""]
                 /\ BpIdle /\ EvIdle /\ PollIdle /\ PtyIdle /\ FmtIdle

\* bootstrap.js alone, its parent sending any messages.
BootInit == BootStarted /\ OrchIdle /\ req = [testFilePath |-> "", breakpointId |-> ""]
               /\ BpIdle /\ EvIdle /\ PollIdle /\ PtyIdle /\ FmtIdle /\ AuxIdle

BootNext ==
    \/ BootMessage /\ UNCHANGED <<orchVars, bpVars, evVars, pollVars, ptyVars, fmtVars, auxVars>>
    \/ BootFallbackTimer /\ UNCHANGED <<orchVars, bpVars, evVars, pollVars, ptyVars, fmtVars, auxVars>>
    \/ \E m \in Messages : EnvSend(m) /\ UNCHANGED <<orchVars, bpVars, evVars, pollVars, ptyVars, fmtVars, auxVars>>

BootSpec == BootInit /\ [][BootNext]_vars

\* One call of the bootstrap-flow debugJestTest, with the process it spawns
\* and the debug session it attaches.
OrchInit == BootIdle /\ OrchIdle /\ BpIdle /\ EvIdle /\ PollIdle /\ PtyIdle /\ FmtIdle /\ AuxIdle

OrchNext ==
    \/ \E ws, located, spawnOk \in BOOLEAN :
           Launch(ws, located, spawnOk) /\ UNCHANGED <<evVars, pollVars, ptyVars, fmtVars, auxVars>>
    \/ \E hasReady \in BOOLEAN : ProcessData(hasReady) /\ UNCHANGED <<evVars, pollVars, ptyVars, fmtVars, auxVars>>
    \/ StartDebugging /\ UNCHANGED <<evVars, pollVars, ptyVars, fmtVars, auxVars>>
    \/ \E r \in {"true", "false", "threw"} : AttachReturns(r) /\ UNCHANGED <<evVars, pollVars, ptyVars, fmtVars, auxVars>>
    \/ \E session \in BOOLEAN, t \in Targets : Signal(session, t) /\ UNCHANGED <<evVars, pollVars, ptyVars, fmtVars, auxVars>>
    \/ StopWaitSettled /\ UNCHANGED <<evVars, pollVars, ptyVars, fmtVars, auxVars>>
    \/ BootMessage /\ UNCHANGED <<orchVars, bpVars, evVars, pollVars, ptyVars, fmtVars, auxVars>>
    \/ BootFallbackTimer /\ UNCHANGED <<orchVars, bpVars, evVars, pollVars, ptyVars, fmtVars, auxVars>>
    \/ \E same \in BOOLEAN : BpCreateTracker(same) /\ UNCHANGED <<orchVars, bootVars, evVars, pollVars, ptyVars, fmtVars, auxVars>>
    \/ \E s \in Stops : BpStopped(s) /\ UNCHANGED <<orchVars, bootVars, evVars, pollVars, ptyVars, fmtVars, auxVars>>
    \/ \E s \in Stops, rsp \in {"frame", "noframes", "fail"} :
           BpStackTrace(s, rsp) /\ UNCHANGED <<orchVars, bootVars, evVars, pollVars, ptyVars, fmtVars, auxVars>>
    \/ BpTimeout /\ UNCHANGED <<orchVars, bootVars, evVars, pollVars, ptyVars, fmtVars, auxVars>>
    \/ SessTerminate /\ UNCHANGED <<orchVars, bootVars, evVars, pollVars, ptyVars, fmtVars, auxVars>>

OrchSpec == OrchInit /\ [][OrchNext]_vars

\* One event-strategy wait and the debug sessions it listens to.
EvInit == BootIdle /\ OrchIdle /\ req = [testFilePath |-> "", breakpointId |-> ""]
             /\ BpIdle /\ EvCreated /\ PollIdle /\ PtyIdle /\ FmtIdle /\ AuxIdle

EvNext ==
    \/ \E sess \in Sessions : EvCreateTracker(sess) /\ UNCHANGED <<bootVars, orchVars, bpVars, pollVars, ptyVars, fmtVars, auxVars>>
    \/ \E sess \in Sessions, b \in EvStopBodies :
           EvStopped(sess, b) /\ UNCHANGED <<bootVars, orchVars, bpVars, pollVars, ptyVars, fmtVars, auxVars>>
    \/ \E r \in evReqs, rsp \in {"frame", "noframes", "fail"} :
           EvStackTrace(r, rsp) /\ UNCHANGED <<bootVars, orchVars, bpVars, pollVars, ptyVars, fmtVars, auxVars>>
    \/ \E sess \in Sessions : EvWillStopSession(sess) /\ UNCHANGED <<bootVars, orchVars, bpVars, pollVars, ptyVars, fmtVars, auxVars>>

EvSpec == EvInit /\ [][EvNext]_vars

\* The same, where every outstanding 'stackTrace' request is answered; the
\* sessions are free never to stop and never to end.
EvAnswered == \E r \in evReqs, rsp \in {"frame", "noframes", "fail"} :
                  EvStackTrace(r, rsp) /\ UNCHANGED <<bootVars, orchVars, bpVars, pollVars, ptyVars, fmtVars, auxVars>>

FairEvSpec == EvSpec /\ WF_vars(EvAnswered)

\* One polling wait; the requests and the timers take their time.
PollInit == BootIdle /\ OrchIdle /\ req = [testFilePath |-> "", breakpointId |-> ""]
               /\ BpIdle /\ EvIdle /\ PollCreated /\ PtyIdle /\ FmtIdle /\ AuxIdle

PollNext ==
    \/ \E rsp \in {"thread", "nothreads", "fail"}, lat \in 0..MaxLat :
           PollThreads(rsp, lat) /\ UNCHANGED <<bootVars, orchVars, bpVars, evVars, ptyVars, fmtVars, auxVars>>
    \/ \E rsp \in {"valid", "noframes", "stfail"}, lat \in 0..MaxLat :
           PollStackTrace(rsp, lat) /\ UNCHANGED <<bootVars, orchVars, bpVars, evVars, ptyVars, fmtVars, auxVars>>
    \/ \E lat \in 0..MaxLat : PollTick(lat) /\ UNCHANGED <<bootVars, orchVars, bpVars, evVars, ptyVars, fmtVars, auxVars>>

PollSpec == PollInit /\ [][PollNext]_vars

\* The same, where every timer of setTimeout(tick, poll) fires; the requests
\* are free never to be answered.
PollTimerFires == \E lat \in 0..MaxLat :
                      PollTick(lat) /\ UNCHANGED <<bootVars, orchVars, bpVars, evVars, ptyVars, fmtVars, auxVars>>

FairPollSpec == PollSpec /\ WF_vars(PollTimerFires)

\* The ready wait of launchJestProcess over one executeCommandInPty run.
PtyInit == BootIdle /\ OrchIdle /\ req = [testFilePath |-> "", breakpointId |-> ""]
              /\ BpIdle /\ EvIdle /\ PollIdle /\ PtyCreated /\ FmtIdle /\ AuxIdle

PtyNext ==
    \/ \E ok \in BOOLEAN :
           PtyOpen(ok) /\ UNCHANGED <<bootVars, orchVars, bpVars, evVars, pollVars, fmtVars, auxVars>>
    \/ \E stream \in {"stdout", "stderr"}, d \in PtyChunks :
           PtyData(stream, d) /\ UNCHANGED <<bootVars, orchVars, bpVars, evVars, pollVars, fmtVars, auxVars>>
    \/ PtyError /\ UNCHANGED <<bootVars, orchVars, bpVars, evVars, pollVars, fmtVars, auxVars>>
    \/ \E code \in ExitCodes :
           PtyClose(code) /\ UNCHANGED <<bootVars, orchVars, bpVars, evVars, pollVars, fmtVars, auxVars>>
    \/ PtyResolve /\ UNCHANGED <<bootVars, orchVars, bpVars, evVars, pollVars, fmtVars, auxVars>>
    \/ ReadyTimeout /\ UNCHANGED <<bootVars, orchVars, bpVars, evVars, pollVars, fmtVars, auxVars>>
    \/ PtyFork /\ UNCHANGED <<bootVars, orchVars, bpVars, evVars, pollVars, fmtVars, auxVars>>
    \/ HandleInputCtrlC /\ UNCHANGED <<bootVars, orchVars, bpVars, evVars, pollVars, fmtVars, auxVars>>

PtySpec == PtyInit /\ [][PtyNext]_vars

\* formatTerminalChunk applied to every chunk of the bound, and once more to
\* its own result.
FmtInit == BootIdle /\ OrchIdle /\ req = [testFilePath |-> "", breakpointId |-> ""]
              /\ BpIdle /\ EvIdle /\ PollIdle /\ PtyIdle /\ FmtInput /\ AuxIdle

FmtNext ==
    \/ FmtApply /\ UNCHANGED <<bootVars, orchVars, bpVars, evVars, pollVars, ptyVars, auxVars>>
    \/ FmtReapply /\ UNCHANGED <<bootVars, orchVars, bpVars, evVars, pollVars, ptyVars, auxVars>>

FmtSpec == FmtInit /\ [][FmtNext]_vars

\* One call of findNearestJestBin on every directory chain of the bound; the
\* loop runs on.
FindInit == FlowsIdle /\ FindCalled /\ HeurIdle /\ SumIdle /\ ContIdle /\ AasIdle /\ LateIdle

FindNext ==
    \/ FindStep /\ UNCHANGED <<flowVars, heurVars, sumVars, contVars, aasVars, lateVars>>

FindSpec == FindInit /\ [][FindNext]_vars /\ WF_vars(FindNext)

\* The listener flow of debugJestTest from its startDebugging call on, with
\* the events of the debug session.
HeurInit == FlowsIdle /\ FindIdle /\ HeurCreated /\ SumIdle /\ ContIdle /\ AasIdle /\ LateIdle

HeurNext ==
    \/ HSessionStart /\ UNCHANGED <<flowVars, findVars, sumVars, contVars, aasVars, lateVars>>
    \/ \E defined \in BOOLEAN : HActiveChange(defined) /\ UNCHANGED <<flowVars, findVars, sumVars, contVars, aasVars, lateVars>>
    \/ HCheck /\ UNCHANGED <<flowVars, findVars, sumVars, contVars, aasVars, lateVars>>
    \/ \E ev \in {"stopped", "breakpoint", "step", "output"} :
           HCustomEvent(ev) /\ UNCHANGED <<flowVars, findVars, sumVars, contVars, aasVars, lateVars>>
    \/ HTerminate /\ UNCHANGED <<flowVars, findVars, sumVars, contVars, aasVars, lateVars>>
    \/ HTimeout /\ UNCHANGED <<flowVars, findVars, sumVars, contVars, aasVars, lateVars>>
    \/ \E r \in {"true", "false", "threw"} : HAttachReturns(r) /\ UNCHANGED <<flowVars, findVars, sumVars, contVars, aasVars, lateVars>>
    \/ HReturn /\ UNCHANGED <<flowVars, findVars, sumVars, contVars, aasVars, lateVars>>
    \/ \E atTarget \in BOOLEAN : HStop(atTarget) /\ UNCHANGED <<flowVars, findVars, sumVars, contVars, aasVars, lateVars>>

HeurSpec == HeurInit /\ [][HeurNext]_vars

\* One stop of the debuggee, summarised by both strategies.
SumInit == FlowsIdle /\ FindIdle /\ HeurIdle /\ SumStopped /\ ContIdle /\ AasIdle /\ LateIdle

SumNext ==
    \/ SumEvent /\ UNCHANGED <<flowVars, findVars, heurVars, contVars, aasVars, lateVars>>
    \/ SumPoll /\ UNCHANGED <<flowVars, findVars, heurVars, contVars, aasVars, lateVars>>

SumSpec == SumInit /\ [][SumNext]_vars

\* One debugContinue call on a paused session: the polling wait, the continue
\* command and the debuggee.
ContInit == BootIdle /\ OrchIdle /\ req = [testFilePath |-> "", breakpointId |-> ""]
               /\ BpIdle /\ EvIdle /\ PtyIdle /\ FmtIdle
               /\ FindIdle /\ HeurIdle /\ SumIdle /\ ContCalled /\ AasIdle /\ LateIdle

contRest == <<bootVars, orchVars, bpVars, evVars, ptyVars, fmtVars, findVars, heurVars,
              sumVars, aasVars, lateVars>>

ContNext ==
    \/ ContinueCommand /\ UNCHANGED <<contRest, pollVars>>
    \/ ContStop /\ UNCHANGED <<contRest, pollVars>>
    \/ \E rsp \in {"thread", "nothreads", "fail"}, lat \in 0..MaxLat :
           PollThreads(rsp, lat) /\ UNCHANGED <<contRest, contVars>>
    \/ \E rsp \in {"valid", "noframes", "stfail"}, lat \in 0..MaxLat :
           ContStackTrace(rsp, lat) /\ UNCHANGED contRest
    \/ \E lat \in 0..MaxLat : PollTick(lat) /\ UNCHANGED <<contRest, contVars>>
    \/ ContReturn /\ UNCHANGED <<contRest, pollVars>>

ContSpec == ContInit /\ [][ContNext]_vars

\* One attachAndAwaitStop call: the start of the sessions, the stop wait and
\* the stops of the debuggee.
AttachInit == BootIdle /\ OrchIdle /\ req = [testFilePath |-> "", breakpointId |-> ""]
                 /\ BpIdle /\ EvIdle /\ PollIdle /\ PtyIdle /\ FmtIdle
                 /\ FindIdle /\ HeurIdle /\ SumIdle /\ ContIdle /\ AasCalled /\ LateIdle

aasRest == <<bootVars, orchVars, bpVars, pollVars, ptyVars, fmtVars, findVars, heurVars,
             sumVars, contVars, lateVars>>

AttachNext ==
    \/ \E sess \in Sessions : AasSessionStart(sess) /\ UNCHANGED aasRest
    \/ \E ok \in BOOLEAN : AasStartDebuggingReturns(ok) /\ UNCHANGED aasRest
    \/ \E sess \in Sessions, b \in EvStopBodies : AasStopped(sess, b) /\ UNCHANGED aasRest
    \/ \E sess \in Sessions, b \in EvStopBodies :
           AasStoppedNoTracker(sess, b) /\ UNCHANGED aasRest
    \/ \E r \in evReqs, rsp \in {"frame", "noframes", "fail"} :
           EvStackTrace(r, rsp) /\ UNCHANGED <<aasRest, aasVars>>
    \/ \E sess \in Sessions : AasSessionEnd(sess) /\ UNCHANGED aasRest
    \/ AasReturn /\ UNCHANGED aasRest

AttachSpec == AttachInit /\ [][AttachNext]_vars

\* One runCmdInTerminal call with the process it spawns.
earlyVars == <<flowVars, findVars, heurVars, sumVars, contVars, aasVars>>

EarlyIdle == FlowsIdle /\ FindIdle /\ HeurIdle /\ SumIdle /\ ContIdle /\ AasIdle

RunInit == EarlyIdle /\ RunCreated /\ IcIdle /\ SplitIdle /\ UnsetIdle

RunNext ==
    \/ RunOpen /\ UNCHANGED <<earlyVars, icVars, splitVars, unsetVars>>
    \/ \E data \in {"x", "m"} : RunData(data) /\ UNCHANGED <<earlyVars, icVars, splitVars, unsetVars>>
    \/ \E exitCode \in {"0", "1"} : RunExit(exitCode) /\ UNCHANGED <<earlyVars, icVars, splitVars, unsetVars>>
    \/ RunTimeout /\ UNCHANGED <<earlyVars, icVars, splitVars, unsetVars>>

RunSpec == RunInit /\ [][RunNext]_vars

\* One open() of executeCommandInPty with the output of the process.
IcInit == EarlyIdle /\ RunIdle /\ IcIdle /\ SplitIdle /\ UnsetIdle

IcNext ==
    \/ IcOpen /\ UNCHANGED <<earlyVars, runVars, splitVars, unsetVars>>
    \/ \E stream \in Streams, d \in PtyChunks :
           IcWrite(stream, d) /\ UNCHANGED <<earlyVars, runVars, splitVars, unsetVars>>
    \/ \E stream \in Streams : IcData(stream) /\ UNCHANGED <<earlyVars, runVars, splitVars, unsetVars>>

IcSpec == IcInit /\ [][IcNext]_vars

\* One text delivered to the 'data' listener in two chunks.
SplitInit == EarlyIdle /\ RunIdle /\ IcIdle /\ SplitWritten /\ UnsetIdle

SplitNext ==
    \/ SplitFirst /\ UNCHANGED <<earlyVars, runVars, icVars, unsetVars>>
    \/ SplitSecond /\ UNCHANGED <<earlyVars, runVars, icVars, unsetVars>>

SplitSpec == SplitInit /\ [][SplitNext]_vars

\* One unsetBreakpoint call on a set of breakpoints.
UnsetInit == EarlyIdle /\ RunIdle /\ IcIdle /\ SplitIdle /\ UnsetCalled

UnsetNext ==
    \/ UnsetBreakpoint /\ UNCHANGED <<earlyVars, runVars, icVars, splitVars>>

UnsetSpec == UnsetInit /\ [][UnsetNext]_vars

(***************************************************************************)
(* Claims                                                                  *)
(***************************************************************************)

\* C1: in the bootstrap flow the start message {command:'runJestTests'} is
\* sent only after startDebugging has returned true: never while the attach
\* request is outstanding, never before it, never after it returned false.
C1_StartOnlyAfterAttach ==
    /\ startSent > 0 => attachStarted = "true"
    /\ (\E i \in 1..Len(ipc) : ipc[i] = StartMsg) => attachStarted = "true"
    /\ pc \in {"idle", "awaitReady", "attaching"} => startSent = 0

C1_Witness == startSent = 1 /\ attachStarted = "true" /\ attachCalls = 1

\* C2: the bootstrap starts Jest only after a 'runJestTests' message has been
\* delivered, at most once for any sequence of messages, and exactly once as
\* soon as one start message has been delivered to the running process.
C2_WorkloadGuarded ==
    /\ jestStarts <= 1
    /\ jestStarts > 0 => startRecv > 0
    /\ startRecv > 0 => jestStarts = 1
    /\ hasRun <=> jestStarts = 1

C2_Witness == startRecv >= 2 /\ jestStarts = 1 /\ bootProc = "running"

\* The 'continue' requests that the 'entry' stops of a history of delivered
\* stops call for, one per stop, in order.
RECURSIVE EntryContinues(_)
EntryContinues(stops) ==
    IF stops = <<>> THEN <<>>
    ELSE LET h == Head(stops)
             rest == EntryContinues(Tail(stops))
         IN  IF h.body.reason = "entry" /\ ~h.done
                THEN <<[session |-> h.session, threadId |-> h.body.threadId]>> \o rest
                ELSE rest

\* C3: event strategy with skipEntry = true: every 'entry' stop delivered to
\* the live wait issues exactly one 'continue' for its thread and settles
\* nothing; a 'breakpoint' stop whose stackTrace request succeeds while the
\* wait is pending resolves it, with reason 'breakpoint'.
C3_EntrySkippedBreakpointResolves ==
    skipEntry =>
        /\ evContinues = EntryContinues(evStops)
        /\ evWait \in {"resolved", "rejError"} =>
               \E i \in 1..Len(evStops) : evStops[i].body.reason # "entry"
        /\ evWait = "rejTerminated" => evEnded \cap evTrackers # {}
        /\ \A f \in evFrames :
               /\ f.body.reason = "breakpoint"
               /\ f.pending => evWait = "resolved" /\ evSummary.reason = "breakpoint"

C3_Witness ==
    /\ skipEntry
    /\ Len(evStops) = 2
    /\ evStops[1].body.reason = "entry"
    /\ evStops[2].body.reason = "breakpoint"
    /\ Len(evContinues) = 1
    /\ evWait = "resolved"

\* The stop s is at the target breakpoint: same file, and the 1-based line of
\* the protocol is the 0-based line of the breakpoint plus one.
StopAtTargetLine(s) == s.path = target.path /\ s.line = target.line + 1

C8_TerminationRejects ==
    /\ bpTermPending => bpWait = "rejTerminated"
    /\ evWait = "pending" => evEnded \cap evTrackers = {}

\* C9: every event-strategy wait settles eventually, whatever the sessions do.
C9_WaitBounded == <>(evWait # "pending")

\* The first k ticks ended with 'no threads' and tick k+1 has ended either
\* with a valid frame or without asking the protocol.
NoThreadsThenValid(k) ==
    /\ Len(pollLog) >= k + 1
    /\ \A i \in 1..k : pollLog[i].out = "nothreads"
    /\ pollLog[k + 1].out \in {"valid", "timeout"}

\* C5 (as claimed): with no threads on the first K ticks, a valid frame on
\* tick K+1 and K <= timeout / poll interval, the wait resolves on tick K+1.
C5_ResolvesOnTickKPlus1 ==
    \A k \in 0..Len(pollLog) :
        NoThreadsThenValid(k) /\ k <= to \div poll
            => pollLog[k + 1].out = "valid" /\ pollWait = "resolved"

\* C5 (amended): the same for every K whose tick K+1 starts no later than
\* timeout after the wait began, which K <= timeout / poll interval ensures
\* when no request and no timer has added a delay; the wait is pending after
\* every earlier tick, and a tick that resolves or rejects is the last one.
C5_ResolvesOnTickInTime ==
    /\ \A k \in 0..Len(pollLog) :
           NoThreadsThenValid(k) /\ pollLog[k + 1].at <= to
               => pollLog[k + 1].out = "valid" /\ pollWait = "resolved"
    /\ \A i \in 1..Len(pollLog) :
           /\ pollLog[i].at = (i - 1) * poll /\ i - 1 <= to \div poll
                  => pollLog[i].out # "timeout"
           /\ pollLog[i].out \in {"valid", "timeout"} => i = Len(pollLog)
    /\ pollWait = "resolved" <=>
           Len(pollLog) > 0 /\ pollLog[Len(pollLog)].out = "valid"
    /\ pollWait = "pending" <=> pollPc \in {"threads", "stack", "timer"}

C5_Witness ==
    /\ Len(pollLog) = 3
    /\ NoThreadsThenValid(2)
    /\ pollLog[3].at = to
    /\ pollWait = "resolved"

\* C6: the pattern is tested against the whole accumulated output: once the
\* accumulated output matches, the intercept callback has fired, also when
\* no single chunk matched.
C6_AccumulatedOutputTested ==
    Test(InterceptPattern, output) => interceptCalls >= 1

\* C7: the intercept callback of one run is invoked at most once.
C7_InterceptAtMostOnce == interceptCalls <= 1

\* C10: a wait that timed out has torn down its listeners: the ready wait's
\* resolution path (onIntercept) never runs after its timeout, and the stop
\* wait's tracker factory is disposed when it rejects.
C10_NoResolutionAfterTimeout ==
    /\ readyLateRuns = 0
    /\ bpWait = "rejTimeout" => bpFactory = "disposed"

\* C11: the settle path of one event-strategy wait (done = true, cleanup,
\* resolve or reject) runs at most once, also when a second 'stopped' event or
\* the end of a session arrives while a 'stackTrace' request is outstanding.
C11_SettlePathOnce == evSettles <= 1

\* C12: when the ready wait of launchJestProcess times out, which makes
\* debugJestTest return its failure, the process it spawned is not alive
\* (any more) at that moment.
C12_ReadyTimeoutKills == ~timeoutAlive

\* C14: after killProcessTree has been called for the spawned process,
\* neither that process nor any of its descendants is alive.
C14_TreeKilled == killCalls > 0 => ~procAlive /\ descs = 0

\* C20: executeCommandInPty resolves at most once, only after the process
\* has closed, and with isError = false exactly when the exit code was 0:
\* a non-zero code, a null code (signal) and a spawn error all give true.
C20_ResolvesOnceWithExitStatus ==
    /\ resolves <= 1
    /\ resolves = 1 <=> ptyResult \in {"ok", "error"}
    /\ ptyResult \in {"closing", "ok", "error"} <=> child = "closed"
    /\ child = "closed" => ~procAlive /\ closeCode \in ExitCodes
    /\ ptyResult = "ok" => closeCode = "0"
    /\ ptyResult = "error" => closeCode \in {"1", "null", "errno"}
    /\ child = "failed" => hadError

C20_Witness ==
    /\ ptyResult = "error"
    /\ closeCode = "null"
    /\ resolves = 1
    /\ chunks > 0

\* C13: when startDebugging is rejected or returns false, debugJestTest
\* returns a failure, has taken no further step (no start message, no stop
\* wait, no second attach), and the process it spawned is no longer running.
C13_AttachFailureKills ==
    pc = "returned" /\ attachStarted \in {"false", "threw"} =>
        /\ result.isError
        /\ startSent = 0
        /\ bpWait = "none"
        /\ attachCalls = 1
        /\ bootProc # "running"

\* C15: formatting is idempotent: formatting a formatted text changes nothing.
C15_Idempotent == fmtPc = "twice" => fmtOut2 = fmtOut1

\* C16: the formatted text has no lone carriage return: a line feed follows
\* every carriage return.
C16_NoLoneCR ==
    fmtPc \in {"once", "twice"} =>
        \A i \in 1..Len(fmtOut1) :
            fmtOut1[i] = CR => i < Len(fmtOut1) /\ fmtOut1[i + 1] = LF

\* The lines of a text: the pieces between its carriage returns and line feeds.
RECURSIVE LinesOf(_)
LinesOf(t) ==
    IF \A i \in 1..Len(t) : t[i] \notin {CR, LF} THEN <<t>>
    ELSE LET k == CHOOSE i \in 1..Len(t) :
                      t[i] \in {CR, LF} /\ \A j \in 1..(i - 1) : t[j] \notin {CR, LF}
         IN  <<SubSeq(t, 1, k - 1)>> \o LinesOf(SubSeq(t, k + 1, Len(t)))

\* The line ends with a blank once the colour sequences at its very end are
\* left out.
EndsWithBlank(line) ==
    \E k \in 1..Len(line) :
        line[k] \in Blank /\ IsAnsiRun(SubSeq(line, k + 1, Len(line)))

\* C17: no line of the formatted text ends with a space or a tab, colour
\* sequences at the end of the line disregarded.
C17_NoTrailingBlanks ==
    fmtPc \in {"once", "twice"} =>
        LET ls == LinesOf(fmtOut1)
        IN  \A i \in 1..Len(ls) : ~EndsWithBlank(ls[i])

\* C18: when the fallback timer of the bootstrap fires and no start message
\* has been delivered, the process exits with status 1 and Jest is never
\* started in it; the process exits this way only.
C18_FallbackExits ==
    /\ bootTimer = "fired" /\ startRecv = 0 => bootProc = "exited1"
    /\ bootProc = "exited1" =>
           bootTimer = "fired" /\ startRecv = 0 /\ jestStarts = 0 /\ ~hasRun /\ ipc = <<>>
    /\ bootTimer = "armed" => bootProc = "running"

C18_Witness ==
    /\ bootProc = "exited1"
    /\ envSends >= 2
    /\ jestStarts = 0

\* The outcomes of a tick that its catch block swallows.
SwallowedOuts == {"fail", "nothreads", "stfail", "noframes"}

\* C19: a polling tick whose threads request fails or reports no thread, or
\* whose stackTrace request fails or has no frames, leaves the wait pending
\* and is followed by one next tick, not earlier than the poll interval later;
\* the wait rejects only at a tick that starts after the timeout has elapsed.
C19_ErrorsSwallowed ==
    /\ \A i \in 1..Len(pollLog) :
           /\ pollLog[i].out \in SwallowedOuts /\ i = Len(pollLog) =>
                  pollWait = "pending" /\ pollPc \in {"timer", "threads", "stack"}
           /\ pollLog[i].out \in SwallowedOuts /\ i < Len(pollLog) =>
                  pollLog[i + 1].at >= pollLog[i].at + poll
           /\ pollLog[i].out = "timeout" => pollLog[i].at > to /\ i = Len(pollLog)
    /\ pollWait = "rejTimeout" <=>
           Len(pollLog) > 0 /\ pollLog[Len(pollLog)].out = "timeout"
    /\ pollWait \in {"threw", "pending", "resolved", "rejTimeout"}
    /\ pollWait = "threw" => pollLog = <<>>
    /\ pollPc = "threads" => tickAt <= to

C19_Witness ==
    /\ pollWait = "rejTimeout"
    /\ \E i, j, k \in 1..Len(pollLog) :
           /\ pollLog[i].out = "fail"
           /\ pollLog[j].out = "stfail"
           /\ pollLog[k].out = "noframes"

\* C21: when the process could not be spawned, the ready wait fails at once:
\* as soon as the failed spawn has closed, the wait is no longer pending.
C21_SpawnErrorImmediate == closeCode = "errno" => readyWait # "pending"

\* The directories from d up to the directory k, nearest first.
Upward(d, k) == [i \in 1..(d - k + 1) |-> d - i + 1]

\* C22: findNearestJestBin terminates; it probes the start directory and then
\* each parent in order, up to the nearest directory with the marker or else
\* up to and including the root; it returns that nearest directory, and
\* undefined exactly when no directory of the chain has the marker.
C22_NearestWins ==
    /\ [](/\ Len(probes) <= startDir + 1
          /\ \A i \in 1..Len(probes) : probes[i] = startDir - i + 1
          /\ \A i \in 1..(Len(probes) - 1) : probes[i] \notin markers)
    /\ [](findPc = "done" =>
             /\ findResult.found <=> \E m \in markers : m <= startDir
             /\ findResult.found =>
                    /\ findResult.root \in markers
                    /\ \A m \in markers : m <= startDir => m <= findResult.root
                    /\ probes = Upward(startDir, findResult.root)
             /\ ~findResult.found => probes = Upward(startDir, 0))
    /\ <>(findPc = "done")

C22_Witness ==
    /\ findPc = "done"
    /\ findResult.found
    /\ findResult.root < startDir
    /\ \E m \in markers : m < findResult.root

\* C23: with an empty test file path, a file outside every workspace folder
\* or no Jest binary on the upward walk, debugJestTest returns an error and
\* has spawned no process, issued no attach request and sent no start message.
C23_ValidationFailsClean ==
    pc # "idle" /\ (req.testFilePath = "" \/ ~launchEnv.ws \/ ~launchEnv.located) =>
        /\ pc = "returned"
        /\ result.isError
        /\ result.text \in {"Error: Test file path is required.",
                            "Error: Could not find workspace folder",
                            "Could not find Jest"}
        /\ spawned = 0
        /\ bootProc = "none"
        /\ attachCalls = 0
        /\ startSent = 0
        /\ ipc = <<>>
        /\ bpWait = "none"

C23_Witness ==
    /\ pc = "returned"
    /\ req.testFilePath # ""
    /\ launchEnv.ws
    /\ ~launchEnv.located
    /\ result.text = "Could not find Jest"

\* C28: one call of the bootstrap-flow debugJestTest spawns at most one
\* process, issues at most one attach request and puts at most one start
\* message on the channel; it has sent exactly one when it reaches the stop
\* wait or returns a success.
C28_AtMostOnce ==
    /\ spawned <= 1
    /\ attachCalls <= 1
    /\ startSent <= 1
    /\ startRecv + Len(ipc) <= startSent
    /\ \A i \in 1..Len(ipc) : ipc[i] = StartMsg
    /\ pc = "awaitStop" => startSent = 1
    /\ pc = "returned" /\ ~result.isError => startSent = 1

C28_Witness ==
    /\ pc = "returned"
    /\ ~result.isError
    /\ startSent = 1
    /\ startRecv = 1
    /\ bpWait = "resolved"

\* C30: startDebugging is called only after a chunk with the ready line
\* 'Debugger listening on ws://' of the spawned process has been seen; as
\* long as none has been seen no attach request is issued.
C30_AttachAfterReady ==
    /\ attachCalls > 0 => readyResolved
    /\ ~readyResolved => attachStarted = "none" /\ startSent = 0
                           /\ pc \in {"idle", "awaitReady", "returned"}
    /\ readyResolved => spawned = 1 /\ bootProc \in {"running", "exited1"}

C30_Witness ==
    /\ readyResolved
    /\ attachCalls = 1
    /\ attachStarted = "pending"
    /\ bootProc = "running"

\* C24: when the stop wait runs into its timeout, debugJestTest returns an
\* error result with the timeout message, and no listener of the wait is
\* registered any more.
C24_StopTimeoutFails ==
    hResult.text = "Timeout: Breakpoint was not hit within 5 minutes" =>
        hResult.isError /\ hSubs = {}

\* C26: with a breakpoint id, debugJestTest reports a pause at the breakpoint
\* as a success only if the session has stopped at the file and line of that
\* breakpoint.
C26_HitOnlyIfObserved ==
    /\ hBp
    /\ ~hResult.isError
    /\ hResult.text \in {"Debug session paused at breakpoint. Breakpoint was hit",
                         "Debug session paused. Breakpoint may have been hit"}
    => hStopSeen

\* C25: for the same stop, the summary of the polling strategy and the summary
\* of the event strategy state the same reason, source path, line, column and
\* function name.
C25_SameSummary ==
    sEvent # NoPauseSummary /\ sPoll # NoPauseSummary =>
        /\ sEvent.reason[1] = sPoll.reason[1]
        /\ sEvent.at = sPoll.at
        /\ sEvent.frame = sPoll.frame

\* C27: the wait that debugContinue starts resolves only from a stop that
\* occurred after the continue command, never from the pause that was in
\* effect when debugContinue was called.
C27_ResolvesFromNewStop == pollWait = "resolved" /\ cPc # "idle" => cFrom = "pausedNew"

\* C29: no 'stopped' event of the debug session is delivered while no stop
\* subscription is registered for that session: the subscription of the wait
\* is in place before the attach that can cause the first stop.
C29_NoStopUnobserved == evMissed = 0

\* C31: every polling wait settles eventually, also when a 'threads' or
\* 'stackTrace' request is never answered: it resolves with a summary or
\* rejects with the timeout error.
C31_PollSettles == <>(pollWait # "pending")

\* C32: when the handshake channel is not connected after a successful attach,
\* debugJestTest sends no start message and returns an error result.
C32_NoChannelFails ==
    [][pc = "delay" /\ bootProc # "running" /\ pc' # "delay" =>
          /\ startSent' = startSent
          /\ ipc' = ipc
          /\ pc' = "returned"
          /\ result'.isError]_vars

C32_Witness ==
    /\ pc = "returned"
    /\ attachStarted = "true"
    /\ bootProc = "exited1"
    /\ startSent = 0
    /\ result.isError

\* C33: when the timeoutMs timer of runCmdInTerminal fires while the process
\* runs, the process is killed: it is not left running.
C33_TimeoutKills == rAtTimeout = "running" => rProc # "running"

\* C34: the finish path of runCmdInTerminal (clear the timer, kill the
\* process, resolve) runs at most once per run.
C34_FinishOnce == rFinishes <= 1

\* The chunks of a pipe that match interceptPattern.
PendingMatches(q) == Cardinality({i \in 1..Len(q) : ChunkMatches(q[i])})

\* C35: every chunk the spawned process writes to stdout or stderr reaches a
\* listener that tests it: none is emitted before the listeners are attached,
\* and every matching chunk calls onIntercept.
C35_EveryChunkTested ==
    /\ iLost = 0
    /\ iChild = "running" => iListening = Streams
    /\ iEmitted = iTested + Len(iPipe["stdout"]) + Len(iPipe["stderr"])
    /\ iMatchEmitted = iIntercepts + PendingMatches(iPipe["stdout"])
                                   + PendingMatches(iPipe["stderr"])

C35_Witness ==
    /\ iEmitted = MaxChunks
    /\ iPipe = [st \in Streams |-> <<>>]
    /\ iMatchEmitted > 0
    /\ iIntercepts = iMatchEmitted

\* C36: the output accumulated over the chunks of a text equals
\* formatTerminalChunk of the whole text, whatever the split.
C36_SplitIndependent ==
    kPc = "done" => kOutput = FormatTerminalChunk(Chars(kTokens))

C38_NoExitAfterStart ==
    /\ hasRun => bootProc = "running"
    /\ bootProc = "exited1" => startRecv = 0 /\ jestStarts = 0

C38_Witness == hasRun /\ bootTimer = "fired" /\ bootProc = "running" /\ jestStarts = 1

\* The column the call is about: the argument, 0 when it is not given.
C39_Column == IF uArgs.columnNumber = <<>> THEN 0 ELSE uArgs.columnNumber[1]

\* C39: unsetBreakpoint removes exactly the source breakpoints whose file,
\* line and column equal the arguments (column 0 by default) and leaves the
\* others; when none matches, the set is unchanged and no removal is requested.
C39_RemovesExactlyMatching ==
    uPc = "done" =>
        /\ \A bp \in uBefore :
               bp \notin uBreakpoints <=>
                   /\ bp.kind = "source"
                   /\ bp.uri = UriString(uArgs.fileName)
                   /\ bp.line = uArgs.lineNumber
                   /\ bp.character = C39_Column
        /\ uBreakpoints \subseteq uBefore
        /\ uRemoveCalls = IF uBreakpoints = uBefore THEN 0 ELSE 1

C39_Witness ==
    /\ uPc = "done"
    /\ uRemoveCalls = 1
    /\ uBreakpoints # {}
    /\ uArgs.fileName = "C:/w/a.js"
    /\ uArgs.columnNumber = <<>>

====
